---- MODULE Spec2Model ----
(***************************************************************************)
(* Verification model of VPAgent (vp_generator): the itinerary reconciler, *)
(* the flight / hotel provider cascades of the batch pipeline, the ranker  *)
(* of the research stages and the interactive stage machine.               *)
(*                                                                         *)
(* Calendar dates are day numbers (integers); a date list is a sequence of *)
(* consecutive day numbers.  Strings that matter only by identity (cities, *)
(* labels, stage names) are kept as strings.                               *)
(***************************************************************************)
EXTENDS Integers, Sequences, FiniteSets, TLC

VARIABLES
    front_end,       \* which entry point this run exercises
    \* ---- itinerary planning (visa_pack.plan_itinerary_agent) ----
    ipc,             \* position inside plan_itinerary_agent
    start_date,      \* request.start_date
    end_date,        \* request.end_date
    all_dates,       \* make_date_list(start_date, end_date)
    seg_i,           \* loop variable i of range(0, len(all_dates), 8)
    segment_dates,   \* all_dates[i : i + 8] of the segment being generated
    raw_days,        \* the dates of the raw_days items handled so far
    day_plans,       \* day_plans of generate_itinerary_segment_structured
    all_day_plans,   \* all_day_plans of plan_itinerary_agent
    itinerary,       \* trip_plan.itinerary
    seg_log,         \* per finished segment: its dates and whether it raised
    \* ---- provider cascades (services/flights.py, services/hotels.py) ----
    cpc,             \* position inside recommend_flights / recommend_hotels
    need,            \* which cascade was called: "flights" or "hotels"
    settings,        \* get_settings(): which credentials are configured
    budget_band,     \* request.budget_band
    consulted,       \* the sources consulted so far, in order
    outcome,         \* per source: what consulting it gave
    flights,         \* the list recommend_flights returns (plan.flights)
    cities,          \* the cities recommend_hotels is asked for
    destination_countries,  \* request.destination_countries
    unique_cities,   \* unique_cities of recommend_hotels
    h_idx,           \* position of the per-city loop of a hotel source
    hotels,          \* the hotels collected / returned (plan.hotels)
    token,           \* local token of recommend_flights
    cache_token,     \* amadeus_client._cache["token"]
    cache_expires,   \* amadeus_client._cache["expires"]
    now,             \* time.time()
    requested,       \* the last get_amadeus_token call posted to TOKEN_URL
    \* ---- ranking of search results (langgraph_agent.py) ----
    rpc,             \* position inside _build_flights / the hotel loop body
    r_kind,          \* what is ranked: "flights" or "hotels"
    results,         \* results of the search
    r_idx,           \* position of `for result in results`
    candidates,      \* candidates, a list of (score, option)
    built,           \* the candidates as they were before the sort
    ranked,          \* ranked
    returned,        \* the list handed back
    \* ---- interactive stage machine (langgraph_agent.py) ----
    spc,             \* the node the graph runs next
    destinations,    \* state["destinations"], by city
    current_step,    \* state["current_step"]
    is_complete,     \* state["is_complete"]
    messages,        \* state["messages"]
    executed,        \* the nodes that have run, in order
    outbound_flights,   \* state["outbound_flights"]
    return_flights,     \* state["return_flights"]
    hotels_by_city,     \* state["hotels_by_city"]
    insurance_options,  \* state["insurance_options"]
    documents,          \* cover_letter and itinerary_table are written
    preview_markdown,   \* preview_markdown is written
    invocation,         \* which call of run_vpagent this is
    thread_id,          \* config["configurable"]["thread_id"] of the call
    checkpoint,         \* MemorySaver: per thread, the saved message channel
    msg_run,            \* per message of the log, the call that produced it
    payload,            \* the payload of the call of run_vpagent
    gpc,                \* position in generate_visa_pack
    trip_request,       \* the TripRequest of the call
    trip_plan,          \* the TripPlan the agents fill in
    pack_error,         \* the exception that left generate_visa_pack
    upc,                \* whether truncate_summary has been called
    truncate_call,      \* the arguments of the call of truncate_summary
    truncated,          \* what truncate_summary returned
    \* ---- search-method cascade (langgraph_agent._agentic_results) ----
    qpc,                \* position inside _agentic_results
    exa_api_key,        \* exa_client.EXA_API_KEY
    exa_reply,          \* what the Exa endpoint answered to the call
    invoked,            \* the search engines invoked by the call, in order
    search_results,     \* the list _agentic_results returns
    search_error,       \* the exception that left _agentic_results
    \* ---- the initial state of a run (langgraph_agent.build_initial_state) ----
    bpc,                \* whether build_initial_state returned or raised
    state_payload,      \* the payload build_initial_state was given
    initial_state       \* the state build_initial_state returned

itinVars == <<ipc, start_date, end_date, all_dates, seg_i, segment_dates,
              raw_days, day_plans, all_day_plans, itinerary, seg_log>>

hotelVars == <<cities, destination_countries, unique_cities, h_idx, hotels>>

flightVars == <<budget_band, flights, token, cache_token, cache_expires, now,
                requested>>

cascadeVars == <<cpc, need, settings, consulted, outcome, flightVars, hotelVars>>

batchVars == <<itinVars, cascadeVars>>

rankVars == <<rpc, r_kind, results, r_idx, candidates, built, ranked, returned>>

threadVars == <<invocation, thread_id, payload>>

stageVars == <<spc, destinations, current_step, is_complete, messages, executed,
               outbound_flights, return_flights, hotels_by_city,
               insurance_options, documents, preview_markdown, threadVars,
               checkpoint, msg_run>>

researchVars == <<rankVars, stageVars>>

packVars == <<gpc, trip_request, trip_plan, pack_error>>

utilVars == <<upc, truncate_call, truncated>>

searchVars == <<qpc, exa_api_key, exa_reply, invoked, search_results,
                search_error>>

buildVars == <<bpc, state_payload, initial_state>>

vars == <<front_end, batchVars, researchVars, packVars, utilVars, searchVars,
          buildVars>>

(***************************************************************************)
(* Generic helpers                                                         *)
(***************************************************************************)
Range(s) == {s[k] : k \in 1..Len(s)}

MinOf(S) == CHOOSE x \in S : \A y \in S : x <= y

MaxOf(S) == CHOOSE x \in S : \A y \in S : x >= y

\* Python slice s[lo:hi] with 0-based lo, exclusive hi, clipped to the list.
Slice(s, lo, hi) == SubSeq(s, lo + 1, IF hi < Len(s) THEN hi ELSE Len(s))

(***************************************************************************)
(* Bounds of the model                                                     *)
(***************************************************************************)
MaxDays == 9        \* longest requested trip, in days
MaxRaw == 3         \* most entries in one generated segment response
MaxOffers == 3      \* most offers of any kind in one flight provider response
MaxRoundTrips == 7  \* most round trips in one flight provider response
MaxEntries == 3     \* most entries in one hotel provider response
MaxCities == 2      \* most cities in one hotel request
MaxResults == 3     \* most results of one search that is ranked
MaxNow == 4         \* latest clock reading, in seconds
MaxDestinations == 2  \* most destination countries of one batch request
MaxSummaryWords == 4  \* most words of a summary that is truncated
MaxWordCap == 3     \* largest max_words
MaxSentenceCap == 2 \* largest max_sentences
MaxEnrichDays == 3  \* longest itinerary of a plan enriched on its own
MaxEnrichHotels == 3  \* most hotels of a plan enriched on its own
MaxStays == 3       \* most destinations of one payload

(***************************************************************************)
(* Itinerary reconciler: utils.make_date_list and visa_pack.py             *)
(***************************************************************************)
MAX_DAYS_PER_CALL == 8

NoDate == 0         \* item.get("date") is None
BadDate == -1       \* a date string that is no date of the trip
NotADate == -2      \* a string that strptime("%Y-%m-%d") rejects

\* a slip: every string is taken for a date
StrptimeNeverRaises(date_str) == FALSE

\* utils.make_date_list lines 11-12 and _iso_date (langgraph_agent.py lines
\* 122-127): strptime raises ValueError
StrptimeRaises(date_str) == date_str = NotADate

FirstDestination == "France"      \* req.destination_countries[0]
FillerSummary == "Sightseeing and local exploration."

RECURSIVE DatesFrom(_, _)
DatesFrom(current, end) ==
    IF current <= end THEN <<current>> \o DatesFrom(current + 1, end) ELSE <<>>

\* A plausible slip: the loop stops before the end date (current < end).
RECURSIVE DatesFromExclusive(_, _)
DatesFromExclusive(current, end) ==
    IF current < end THEN <<current>> \o DatesFromExclusive(current + 1, end)
    ELSE <<>>

MakeDateListExclusiveEnd(start, end) == DatesFromExclusive(start, end)

make_date_list(start, end) == DatesFrom(start, end)

\* DayPlan(date, city, summary); src is the position of the generated item
\* the entry was built from (0 for a synthesized filler entry).
DayPlan(date, city, summary, src) ==
    [date |-> date, city |-> city, summary |-> summary, src |-> src]

Filler(d) == DayPlan(d, FirstDestination, FillerSummary, 0)

ClaimedDates(plans) == {plans[k].date : k \in 1..Len(plans)}

\* a slip: a misreported date is moved to the first date of the segment,
\* claimed or not
RemapDateToSegmentStart(date_str, seg, plans) ==
    IF date_str \in Range(seg) THEN date_str ELSE seg[1]

\* lines 193-199: the date an item is stored under
RemapDate(date_str, seg, plans) ==
    IF date_str \in Range(seg) THEN date_str
    ELSE LET free == {k \in 1..Len(seg) : seg[k] \notin ClaimedDates(plans)}
         IN  IF free # {} THEN seg[MinOf(free)]
             ELSE IF date_str = NoDate THEN seg[1]
             ELSE date_str

\* line 201: {dp.date: dp for dp in day_plans}, a later entry overwrites
ExistingByDate(plans, d) ==
    LET at == {k \in 1..Len(plans) : plans[k].date = d}
    IN  plans[MaxOf(at)]

\* lines 202-214
SegmentFinal(seg, plans) ==
    [k \in 1..Len(seg) |->
        IF seg[k] \in ClaimedDates(plans) THEN ExistingByDate(plans, seg[k])
        ELSE Filler(seg[k])]

\* a slip: the entries built before the generator raised are kept
SegmentFallbackKeepsBuilt(seg) == SegmentFinal(seg, day_plans)

\* lines 228-233: the filler for every date of the segment
SegmentFallback(seg) == [k \in 1..Len(seg) |-> Filler(seg[k])]

\* lines 234-245: first entry per date of the whole range, filler if none
FinalPlans(dates, plans) ==
    [k \in 1..Len(dates) |->
        LET matching == {j \in 1..Len(plans) : plans[j].date = dates[k]}
        IN  IF matching # {} THEN plans[MinOf(matching)] ELSE Filler(dates[k])]

GeneratedCities == {"Paris"}

StartDates == {1, 2}

\* dates a generated item may report for the current segment: its first,
\* second and last date, a date of another segment, no date, a non-date
DateChoices(seg, dates, i) ==
    {seg[1], seg[Len(seg)], seg[IF Len(seg) >= 2 THEN 2 ELSE 1]}
    \cup (IF i > 0 THEN {dates[1]}
          ELSE IF Len(dates) > MAX_DAYS_PER_CALL
               THEN {dates[MAX_DAYS_PER_CALL + 1]} ELSE {})
    \cup {NoDate, BadDate}

InitItin ==
    /\ ipc = "start"
    /\ start_date = 0
    /\ end_date = 0
    /\ all_dates = <<>>
    /\ seg_i = 0
    /\ segment_dates = <<>>
    /\ raw_days = <<>>
    /\ day_plans = <<>>
    /\ all_day_plans = <<>>
    /\ itinerary = <<>>
    /\ seg_log = <<>>

\* plan_itinerary_agent lines 218-222, for a request with end >= start
PlanItineraryStart ==
    /\ front_end = "itinerary"
    /\ ipc = "start"
    /\ \E s \in StartDates : \E e \in s..(s + MaxDays - 1) :
          /\ start_date' = s
          /\ end_date' = e
          /\ all_dates' = make_date_list(s, e)
    /\ seg_i' = 0
    /\ all_day_plans' = <<>>
    /\ ipc' = "loop"
    /\ UNCHANGED <<front_end, buildVars, searchVars, utilVars, packVars, cascadeVars, researchVars, segment_dates, raw_days, day_plans,
                   itinerary, seg_log>>

\* lines 223-226: next chunk, call of generate_itinerary_segment_structured
SegmentCall ==
    /\ front_end = "itinerary"
    /\ ipc = "loop"
    /\ seg_i < Len(all_dates)
    /\ segment_dates' = Slice(all_dates, seg_i, seg_i + MAX_DAYS_PER_CALL)
    /\ raw_days' = <<>>
    /\ day_plans' = <<>>
    /\ ipc' = "segment"
    /\ UNCHANGED <<front_end, buildVars, searchVars, utilVars, packVars, cascadeVars, researchVars, start_date, end_date, all_dates, seg_i,
                   all_day_plans, itinerary, seg_log>>

\* lines 188-200: one item of raw_days
SegmentItem ==
    /\ front_end = "itinerary"
    /\ ipc = "segment"
    /\ Len(day_plans) < MaxRaw
    /\ \E d \in DateChoices(segment_dates, all_dates, seg_i),
          c \in GeneratedCities :
          /\ raw_days' = Append(raw_days, d)
          /\ day_plans' = Append(day_plans,
                DayPlan(RemapDate(d, segment_dates, day_plans), c, "generated",
                        Len(day_plans) + 1))
    /\ UNCHANGED <<front_end, buildVars, searchVars, utilVars, packVars, cascadeVars, researchVars, ipc, start_date, end_date, all_dates, seg_i,
                   segment_dates, all_day_plans, itinerary, seg_log>>

\* lines 201-214 and 227: the segment returns and is appended
SegmentReturn ==
    /\ front_end = "itinerary"
    /\ ipc = "segment"
    /\ all_day_plans' = all_day_plans \o SegmentFinal(segment_dates, day_plans)
    /\ seg_log' = Append(seg_log, [dates |-> segment_dates, raised |-> FALSE,
                                   plans |-> day_plans])
    /\ seg_i' = seg_i + MAX_DAYS_PER_CALL
    /\ raw_days' = <<>>
    /\ ipc' = "loop"
    /\ UNCHANGED <<front_end, buildVars, searchVars, utilVars, packVars, cascadeVars, researchVars, start_date, end_date, all_dates, segment_dates,
                   day_plans, itinerary>>

\* lines 228-233: the generator (or the parsing of its answer) raised
SegmentRaise ==
    /\ front_end = "itinerary"
    /\ ipc = "segment"
    /\ all_day_plans' = all_day_plans \o SegmentFallback(segment_dates)
    /\ seg_log' = Append(seg_log, [dates |-> segment_dates, raised |-> TRUE,
                                   plans |-> day_plans])
    /\ seg_i' = seg_i + MAX_DAYS_PER_CALL
    /\ raw_days' = <<>>
    /\ ipc' = "loop"
    /\ UNCHANGED <<front_end, buildVars, searchVars, utilVars, packVars, cascadeVars, researchVars, start_date, end_date, all_dates, segment_dates,
                   day_plans, itinerary>>

\* lines 234-245
FinalPass ==
    /\ front_end = "itinerary"
    /\ ipc = "loop"
    /\ seg_i >= Len(all_dates)
    /\ itinerary' = FinalPlans(all_dates, all_day_plans)
    /\ ipc' = "planned"
    /\ UNCHANGED <<front_end, buildVars, searchVars, utilVars, packVars, cascadeVars, researchVars, start_date, end_date, all_dates, seg_i,
                   segment_dates, raw_days, day_plans, all_day_plans, seg_log>>

NextItin ==
    \/ PlanItineraryStart
    \/ SegmentCall
    \/ SegmentItem
    \/ SegmentReturn
    \/ SegmentRaise
    \/ FinalPass

(***************************************************************************)
(* Flight cascade: services/flights.py and services/amadeus_client.py      *)
(***************************************************************************)
FlightSettings == {"travelpayouts_token", "aviasales_partner_id",
                   "amadeus_api_key", "amadeus_api_secret"}

HotelSettings == {"hotelbeds_api_key", "hotelbeds_api_secret", "serpapi_key",
                  "rapidapi_key"}

SettingFields == FlightSettings \cup HotelSettings

\* every combination of configured / missing credentials among the fields
\* `fields`, the other fields left unconfigured
Environments(fields) ==
    {[f \in SettingFields |-> f \in on] : on \in SUBSET fields}

NoSettings == [f \in SettingFields |-> FALSE]

BudgetBands == {"low", "medium", "High", "premium", "none"}

\* (request.budget_band or "medium").lower(); "none" stands for None / ""
BandKey(band) ==
    CASE band = "none" -> "medium"
      [] band = "High" -> "high"
      [] OTHER -> band

\* _fallback_recommendations lines 213-217
BasePrice(band) ==
    CASE BandKey(band) = "low" -> 55000
      [] BandKey(band) = "medium" -> 70000
      [] BandKey(band) = "high" -> 95000
      [] OTHER -> 70000

FlightOption(label, airline, price) ==
    [label |-> label, airline |-> airline, price_in_inr |-> price]

\* a slip: only the inbound flight is synthesized
FallbackInboundOnly(band) ==
    <<FlightOption("Inbound Option", "Sample Airline", BasePrice(band))>>

\* _fallback_recommendations lines 219-241
FallbackRecommendations(band) ==
    <<FlightOption("Inbound Option", "Sample Airline", BasePrice(band)),
      FlightOption("Outbound Option", "Sample Airline", BasePrice(band))>>

FlightSources == <<"aviasales", "amadeus", "synthesized">>

\* one offer of a provider response: a one-way fare, a round trip, an offer
\* without itineraries, or an offer whose price is not a number
OfferKinds == {"oneway", "round", "none", "badprice"}

OfferPrice == 42000

RECURSIVE SeqsUpTo(_, _)
SeqsUpTo(S, n) ==
    IF n = 0 THEN {<<>>}
    ELSE LET shorter == SeqsUpTo(S, n - 1)
         IN  shorter \cup {Append(q, x) : q \in {r \in shorter : Len(r) = n - 1},
                                          x \in S}

\* a response: the call failed, the payload has a wrongly typed "data"
\* field, or it lists offers
Response(kind, offers) == [kind |-> kind, offers |-> offers]

\* every short list of offers, and the longer lists of round trips
Responses ==
    {Response("error", <<>>), Response("bad_data", <<>>)}
    \cup {Response("offers", q) : q \in SeqsUpTo(OfferKinds, MaxOffers)}
    \cup {Response("offers", [k \in 1..n |-> "round"]) : n \in 1..MaxRoundTrips}

IsOffers(resp) == resp.kind = "offers"

\* _fetch_aviasales lines 89-121: the options of the offers, in order
RECURSIVE AviasalesOptions(_)
AviasalesOptions(offers) ==
    IF offers = <<>> THEN <<>>
    ELSE LET o == Head(offers)
             inbound == FlightOption("Inbound Option", "Aviasales", OfferPrice)
             outbound == FlightOption("Outbound Option", "Aviasales", OfferPrice)
         IN  (IF o = "round" THEN <<inbound, outbound>> ELSE <<inbound>>)
             \o AviasalesOptions(Tail(offers))

\* lines 87-91: what is not caught by the try block of lines 79-85
AviasalesRaises(resp) ==
    \/ resp.kind = "bad_data"
    \/ IsOffers(resp) /\ \E k \in 1..Len(resp.offers) : resp.offers[k] = "badprice"

\* a slip: the list is returned without the slice
FetchAviasalesUncapped(resp) ==
    IF resp.kind = "error" THEN <<>>
    ELSE AviasalesOptions(resp.offers)

\* _fetch_aviasales lines 69-122 when it returns
FetchAviasales(resp) ==
    IF resp.kind = "error" THEN <<>>
    ELSE Slice(AviasalesOptions(resp.offers), 0, 6)

\* _parse_flight_offers lines 146-182
RECURSIVE ParseFlightOffers(_)
ParseFlightOffers(offers) ==
    IF offers = <<>> THEN <<>>
    ELSE LET o == Head(offers)
             inbound == FlightOption("Inbound Option", "Amadeus", OfferPrice)
             outbound == FlightOption("Outbound Option", "Amadeus", OfferPrice)
         IN  (CASE o = "round" -> <<inbound, outbound>>
                [] o = "oneway" -> <<inbound>>
                [] OTHER -> <<>>)
             \o ParseFlightOffers(Tail(offers))

\* _fetch_amadeus lines 136-143: every failure inside the try gives []
FetchAmadeus(resp) ==
    IF ~IsOffers(resp) THEN <<>>
    ELSE LET data == Slice(resp.offers, 0, 6)
         IN  IF \E k \in 1..Len(data) : data[k] = "badprice" THEN <<>>
             ELSE ParseFlightOffers(data)

HotelSources == <<"hotelbeds", "serpapi", "booking", "central">>

\* a slip: "is not None" in place of the truth value of the list
NotNone(options) == options = options

\* `if avia_options:` and its siblings: a list is used when it is non-empty
NonEmpty(options) == options # <<>>

\* what consulting a source gave, from its response and the list it made
Gave(resp, got) ==
    IF got # <<>> THEN "ok" ELSE IF resp.kind = "error" THEN "fail" ELSE "empty"

NoOutcome == [s \in Range(FlightSources) \cup Range(HotelSources) |-> "none"]

InitCascade ==
    /\ cpc = "idle"
    /\ need = "none"
    /\ settings = NoSettings
    /\ budget_band = "none"
    /\ consulted = <<>>
    /\ outcome = NoOutcome
    /\ flights = <<>>
    /\ cities = <<>>
    /\ destination_countries = <<>>
    /\ unique_cities = <<>>
    /\ h_idx = 0
    /\ hotels = <<>>
    /\ token = "None"
    /\ cache_token = ""
    /\ cache_expires = 0
    /\ now = 0
    /\ requested = FALSE

\* recommend_flights lines 50-57: the call, with the environment it runs in
RecommendFlightsCall ==
    /\ front_end = "cascade"
    /\ cpc = "idle"
    /\ settings' \in Environments(FlightSettings)
    /\ budget_band' \in BudgetBands
    /\ need' = "flights"
    /\ cpc' = "aviasales"
    /\ UNCHANGED <<front_end, buildVars, searchVars, utilVars, packVars, itinVars, researchVars, requested, hotelVars, consulted, outcome, flights,
                   token, cache_token, cache_expires, now>>

\* lines 57-59 with _fetch_aviasales: no credentials, or one HTTP call
ConsultAviasales ==
    /\ front_end = "cascade"
    /\ cpc = "aviasales"
    /\ consulted' = Append(consulted, "aviasales")
    /\ IF ~settings["travelpayouts_token"] \/ ~settings["aviasales_partner_id"]
       THEN /\ outcome' = [outcome EXCEPT !["aviasales"] = "nocreds"]
            /\ cpc' = "token"
            /\ UNCHANGED flights
       ELSE \E resp \in Responses :
            IF AviasalesRaises(resp)
            THEN /\ outcome' = [outcome EXCEPT !["aviasales"] = "raised"]
                 /\ cpc' = "raised"
                 /\ UNCHANGED flights
            ELSE LET got == FetchAviasales(resp)
                 IN  /\ outcome' = [outcome EXCEPT !["aviasales"] = Gave(resp, got)]
                     /\ IF NonEmpty(got)
                        THEN /\ flights' = got
                             /\ cpc' = "returned"
                        ELSE /\ cpc' = "token"
                             /\ UNCHANGED flights
    /\ UNCHANGED <<front_end, buildVars, searchVars, utilVars, packVars, itinVars, researchVars, requested, hotelVars, need, settings, budget_band, token,
                   cache_token, cache_expires, now>>

\* the token endpoint's reply: no usable response, or a payload with an
\* access_token ("" when the key is absent, line 40)
TokenReplies == {"error", "", "tokA", "tokB"}

\* a payload's expires_in that int() rejects, line 41
BadExpiresIn == -1

\* expires_in of a payload; 0 is the default of line 41
ExpiresIn == {BadExpiresIn, 0, 61, 63}

\* a cached token used whatever its expiry
CacheValidIgnoringExpiry(tok, expires, t) == tok # ""

\* line 25: the cached token is non-empty and not yet expired
CacheValid(tok, expires, t) == tok # "" /\ t < expires

\* get_amadeus_token lines 18-44, called at line 61 of flights.py
GetAmadeusToken ==
    /\ front_end \in {"cascade", "token"}
    /\ cpc = "token"
    /\ consulted' = Append(consulted, "amadeus")
    /\ IF ~settings["amadeus_api_key"] \/ ~settings["amadeus_api_secret"]
       THEN /\ token' = "None"
            /\ requested' = FALSE
            /\ UNCHANGED <<cache_token, cache_expires>>
       ELSE IF CacheValid(cache_token, cache_expires, now)
       THEN /\ token' = cache_token
            /\ requested' = FALSE
            /\ UNCHANGED <<cache_token, cache_expires>>
       ELSE /\ requested' = TRUE
            /\ \E reply \in TokenReplies, exp \in ExpiresIn :
                 IF reply = "error"
                 THEN /\ token' = "None"
                      /\ UNCHANGED <<cache_token, cache_expires>>
                 ELSE IF exp = BadExpiresIn
                 THEN \* line 40 has stored the token when line 41 raises
                      /\ cache_token' = reply
                      /\ token' = "None"
                      /\ UNCHANGED cache_expires
                 ELSE /\ cache_token' = reply
                      /\ cache_expires' = now + exp - 60
                      /\ token' = reply
    /\ cpc' = "amadeus"
    /\ UNCHANGED <<front_end, buildVars, searchVars, utilVars, packVars, itinVars, researchVars, hotelVars, need, settings, budget_band,
                   outcome, flights, now>>

\* lines 62-65 with _fetch_amadeus
ConsultAmadeus ==
    /\ front_end \in {"cascade", "token"}
    /\ cpc = "amadeus"
    /\ IF token \in {"None", ""}
       THEN /\ outcome' = [outcome EXCEPT !["amadeus"] =
                   IF ~settings["amadeus_api_key"] \/ ~settings["amadeus_api_secret"]
                   THEN "nocreds" ELSE "fail"]
            /\ cpc' = "synthesized"
            /\ UNCHANGED flights
       ELSE \E resp \in Responses :
            LET got == FetchAmadeus(resp)
            IN  /\ outcome' = [outcome EXCEPT !["amadeus"] = Gave(resp, got)]
                /\ IF NonEmpty(got)
                   THEN /\ flights' = got
                        /\ cpc' = "returned"
                   ELSE /\ cpc' = "synthesized"
                        /\ UNCHANGED flights
    /\ UNCHANGED <<front_end, buildVars, searchVars, utilVars, packVars, itinVars, researchVars, requested, hotelVars, need, settings, budget_band,
                   consulted, token, cache_token, cache_expires, now>>

\* line 66
SynthesizeFlights ==
    /\ front_end \in {"cascade", "token"}
    /\ cpc = "synthesized"
    /\ consulted' = Append(consulted, "synthesized")
    /\ outcome' = [outcome EXCEPT !["synthesized"] = "ok"]
    /\ flights' = FallbackRecommendations(budget_band)
    /\ cpc' = "returned"
    /\ UNCHANGED <<front_end, buildVars, searchVars, utilVars, packVars, itinVars, researchVars, requested, hotelVars, need, settings, budget_band,
                   token, cache_token, cache_expires, now>>

\* recommend_flights lines 50-60 of a call, the first of the process or a
\* later one, to which Aviasales gives nothing: get_settings is cached
\* (config.py line 33), so the environment is read once
ReachTokenCall ==
    /\ front_end = "token"
    /\ cpc \in {"idle", "returned"}
    /\ settings' \in IF cpc = "idle" THEN Environments(FlightSettings) ELSE {settings}
    /\ budget_band' \in {"low", "none"}
    /\ need' = "flights"
    /\ consulted' = <<"aviasales">>
    /\ outcome' = [NoOutcome EXCEPT !["aviasales"] = "empty"]
    /\ flights' = <<>>
    /\ cpc' = "token"
    /\ UNCHANGED <<front_end, buildVars, searchVars, utilVars, packVars, itinVars, researchVars, requested, hotelVars, token, cache_token,
                   cache_expires, now>>

\* time.time() moves on between and during calls
Tick ==
    /\ front_end = "token"
    /\ now < MaxNow
    /\ now' = now + 1
    /\ UNCHANGED <<front_end, buildVars, searchVars, utilVars, packVars, itinVars, researchVars, requested, hotelVars, cpc, need, settings,
                   consulted, outcome, budget_band, flights, token, cache_token,
                   cache_expires>>

NextToken ==
    \/ ReachTokenCall
    \/ GetAmadeusToken
    \/ ConsultAmadeus
    \/ SynthesizeFlights
    \/ Tick

NextFlights ==
    \/ RecommendFlightsCall
    \/ ConsultAviasales
    \/ GetAmadeusToken
    \/ ConsultAmadeus
    \/ SynthesizeFlights

(***************************************************************************)
(* Hotel cascade: services/hotels.py and services/hotelbeds.py             *)
(***************************************************************************)
\* city strings a request may carry: two spellings of one city, a padded
\* name and a blank
CityNames == {"Paris", "paris", "Rome ", " "}

\* (city or "").strip()
Strip(city) ==
    CASE city = "Rome " -> "Rome"
      [] city = " " -> ""
      [] OTHER -> city

\* normalized.lower()
Lower(city) ==
    CASE city = "Paris" -> "paris"
      [] city = "Rome" -> "rome"
      [] OTHER -> city

\* a slip: duplicates are told apart by their exact spelling
RECURSIVE DedupeExact(_, _, _)
DedupeExact(cs, seen, ordered) ==
    IF cs = <<>> THEN ordered
    ELSE LET normalized == Strip(Head(cs))
         IN  IF normalized = "" \/ normalized \in seen
             THEN DedupeExact(Tail(cs), seen, ordered)
             ELSE DedupeExact(Tail(cs), seen \cup {normalized},
                              Append(ordered, normalized))

DedupeCitiesExact(cs) == DedupeExact(cs, {}, <<>>)

\* _dedupe_cities lines 219-231
RECURSIVE Dedupe(_, _, _)
Dedupe(cs, seen, ordered) ==
    IF cs = <<>> THEN ordered
    ELSE LET normalized == Strip(Head(cs))
             key == Lower(normalized)
         IN  IF normalized = "" \/ key \in seen
             THEN Dedupe(Tail(cs), seen, ordered)
             ELSE Dedupe(Tail(cs), seen \cup {key}, Append(ordered, normalized))

dedupe_cities(cs) == Dedupe(cs, {}, <<>>)

\* recommend_hotels lines 24-26
UniqueCities(cs, dests) ==
    LET unique == dedupe_cities(cs)
    IN  IF unique = <<>> /\ dests # <<>> THEN <<dests[1]>> ELSE unique

\* an API hotel is known by the source, the city and its place in the
\* response; a synthesized one has place 0
HotelOption(name, city, price, source, pos) ==
    [name |-> name, city |-> city, approx_price_per_night_in_inr |-> price,
     source |-> source, pos |-> pos]

FallbackRate == 10000

\* a slip: only the first city gets a hotel
FallbackFirstCityOnly(cs) ==
    IF cs = <<>> THEN <<>>
    ELSE <<HotelOption("Central Hotel", cs[1], FallbackRate, "central", 0)>>

\* _fallback_hotels lines 262-277
FallbackHotels(cs) ==
    [k \in 1..Len(cs) |->
        HotelOption("Central Hotel", cs[k], FallbackRate, "central", 0)]

\* one entry of a hotel response: with a name, without one, or with a name
\* and a price that is not a number
EntryKinds == {"named", "unnamed", "badprice"}

HotelResponses ==
    {Response("error", <<>>), Response("bad_data", <<>>)}
    \cup {Response("offers", q) : q \in SeqsUpTo(EntryKinds, MaxEntries)}

EntryPrice == 8000

\* the named entries from place k on, as hotels of `city`; badPrice is the
\* price given to an entry whose price does not parse
RECURSIVE EntryHotels(_, _, _, _, _)
EntryHotels(entries, k, city, source, badPrice) ==
    IF k > Len(entries) THEN <<>>
    ELSE (IF entries[k] = "unnamed" THEN <<>>
          ELSE <<HotelOption("entry", city,
                             IF entries[k] = "badprice" THEN badPrice
                             ELSE EntryPrice,
                             source, k)>>)
         \o EntryHotels(entries, k + 1, city, source, badPrice)

\* whether a price among the first `cap` entries is not a number
HasBadPrice(entries, cap) ==
    \E k \in 1..Len(Slice(entries, 0, cap)) : entries[k] = "badprice"

\* hotelbeds.search_hotels lines 89-129 (the price is parsed inside a try)
HotelbedsHotels(resp, cs) ==
    IF resp.kind # "offers" THEN <<>>
    ELSE EntryHotels(Slice(resp.offers, 0, 4), 1,
                     IF cs # <<>> THEN cs[1] ELSE "Schengen", "hotelbeds", 0)

\* search_hotels line 89: data.get("hotels", {}).get("hotels", []) on a
\* payload whose "hotels" field is no mapping is outside the try block
HotelbedsRaises(resp) == resp.kind = "bad_data"

\* _serpapi_hotels lines 160-178 for one city
SerpCityHotels(resp, city) ==
    IF resp.kind # "offers" THEN <<>>
    ELSE EntryHotels(Slice(resp.offers, 0, 2), 1, city, "serpapi", 0)

\* _parse_serp_entry line 201: float(price) of a non-numeric price
SerpRaises(resp) == resp.kind = "offers" /\ HasBadPrice(resp.offers, 2)

\* _search_booking_hotels lines 109-143 for one city
BookingCityHotels(resp, city) ==
    IF resp.kind # "offers" THEN <<>>
    ELSE EntryHotels(Slice(resp.offers, 0, 2), 1, city, "booking", 0)

\* _extract_price lines 234-247: float() of a non-numeric price
BookingRaises(resp) == resp.kind = "offers" /\ HasBadPrice(resp.offers, 2)

\* recommend_hotels lines 20-28: the call
RecommendHotelsCall ==
    /\ front_end = "cascade"
    /\ cpc = "idle"
    /\ settings' \in Environments(HotelSettings)
    /\ \E cs \in SeqsUpTo(CityNames, MaxCities), dests \in {<<>>, <<"France">>} :
          /\ cities' = cs
          /\ destination_countries' = dests
          /\ unique_cities' = UniqueCities(cs, dests)
    /\ need' = "hotels"
    /\ cpc' = "hotelbeds"
    /\ UNCHANGED <<front_end, buildVars, searchVars, utilVars, packVars, itinVars, researchVars, requested, flightVars, consulted, outcome, h_idx,
                   hotels>>

\* lines 28-32 with hotelbeds.search_hotels
ConsultHotelbeds ==
    /\ front_end = "cascade"
    /\ cpc = "hotelbeds"
    /\ IF ~settings["hotelbeds_api_key"] \/ ~settings["hotelbeds_api_secret"]
       THEN /\ outcome' = [outcome EXCEPT !["hotelbeds"] = "nocreds"]
            /\ cpc' = "serpapi"
            /\ UNCHANGED <<consulted, hotels>>
       ELSE /\ consulted' = Append(consulted, "hotelbeds")
            /\ \E resp \in HotelResponses :
               IF HotelbedsRaises(resp)
               THEN /\ outcome' = [outcome EXCEPT !["hotelbeds"] = "raised"]
                    /\ cpc' = "raised"
                    /\ UNCHANGED hotels
               ELSE LET got == HotelbedsHotels(resp, unique_cities)
                    IN  /\ outcome' = [outcome EXCEPT !["hotelbeds"] =
                                           Gave(resp, got)]
                        /\ IF NonEmpty(got)
                           THEN /\ hotels' = got
                                /\ cpc' = "returned"
                           ELSE /\ cpc' = "serpapi"
                                /\ UNCHANGED hotels
    /\ UNCHANGED <<front_end, buildVars, searchVars, utilVars, packVars, itinVars, researchVars, requested, flightVars, need, settings, cities,
                   destination_countries, unique_cities, h_idx>>

\* lines 34-36: _serpapi_hotels is called when its key is configured
SerpapiStart ==
    /\ front_end = "cascade"
    /\ cpc = "serpapi"
    /\ IF ~settings["serpapi_key"]
       THEN /\ outcome' = [outcome EXCEPT !["serpapi"] = "nocreds"]
            /\ cpc' = "booking"
            /\ UNCHANGED <<consulted, h_idx>>
       ELSE /\ consulted' = Append(consulted, "serpapi")
            /\ h_idx' = 1
            /\ cpc' = "serpapi_loop"
            /\ UNCHANGED outcome
    /\ hotels' = <<>>
    /\ UNCHANGED <<front_end, buildVars, searchVars, utilVars, packVars, itinVars, researchVars, requested, flightVars, need, settings, cities,
                   destination_countries, unique_cities>>

\* _serpapi_hotels lines 158-178: the request for one city
SerpapiCity ==
    /\ front_end = "cascade"
    /\ cpc = "serpapi_loop"
    /\ h_idx <= Len(unique_cities)
    /\ \E resp \in HotelResponses :
          IF SerpRaises(resp)
          THEN /\ outcome' = [outcome EXCEPT !["serpapi"] = "raised"]
               /\ cpc' = "raised"
               /\ UNCHANGED <<hotels, h_idx>>
          ELSE /\ hotels' = hotels \o SerpCityHotels(resp, unique_cities[h_idx])
               /\ h_idx' = h_idx + 1
               /\ UNCHANGED <<outcome, cpc>>
    /\ UNCHANGED <<front_end, buildVars, searchVars, utilVars, packVars, itinVars, researchVars, requested, flightVars, need, settings, consulted, cities,
                   destination_countries, unique_cities>>

\* lines 37-38 after _serpapi_hotels returned
SerpapiDone ==
    /\ front_end = "cascade"
    /\ cpc = "serpapi_loop"
    /\ h_idx > Len(unique_cities)
    /\ outcome' = [outcome EXCEPT !["serpapi"] =
                       IF hotels # <<>> THEN "ok" ELSE "empty"]
    /\ cpc' = IF NonEmpty(hotels) THEN "returned" ELSE "booking"
    /\ UNCHANGED <<front_end, buildVars, searchVars, utilVars, packVars, itinVars, researchVars, requested, flightVars, need, settings, consulted, cities,
                   destination_countries, unique_cities, h_idx, hotels>>

\* line 40 and _booking_com_hotels lines 71-81
BookingStart ==
    /\ front_end = "cascade"
    /\ cpc = "booking"
    /\ consulted' = Append(consulted, "booking")
    /\ IF ~settings["rapidapi_key"]
       THEN /\ outcome' = [outcome EXCEPT !["booking"] = "nocreds"]
            /\ cpc' = "central"
            /\ UNCHANGED h_idx
       ELSE /\ h_idx' = 1
            /\ cpc' = "booking_loop"
            /\ UNCHANGED outcome
    /\ hotels' = <<>>
    /\ UNCHANGED <<front_end, buildVars, searchVars, utilVars, packVars, itinVars, researchVars, requested, flightVars, need, settings, cities,
                   destination_countries, unique_cities>>

\* _booking_com_hotels lines 82-86: destination lookup and search for one city
BookingCity ==
    /\ front_end = "cascade"
    /\ cpc = "booking_loop"
    /\ h_idx <= Len(unique_cities)
    /\ \E resp \in HotelResponses :
          IF BookingRaises(resp)
          THEN /\ outcome' = [outcome EXCEPT !["booking"] = "raised"]
               /\ cpc' = "raised"
               /\ UNCHANGED <<hotels, h_idx>>
          ELSE /\ hotels' = hotels \o BookingCityHotels(resp, unique_cities[h_idx])
               /\ h_idx' = h_idx + 1
               /\ UNCHANGED <<outcome, cpc>>
    /\ UNCHANGED <<front_end, buildVars, searchVars, utilVars, packVars, itinVars, researchVars, requested, flightVars, need, settings, consulted, cities,
                   destination_countries, unique_cities>>

\* lines 41-42 after _booking_com_hotels returned
BookingDone ==
    /\ front_end = "cascade"
    /\ cpc = "booking_loop"
    /\ h_idx > Len(unique_cities)
    /\ outcome' = [outcome EXCEPT !["booking"] =
                       IF hotels # <<>> THEN "ok" ELSE "empty"]
    /\ cpc' = IF NonEmpty(hotels) THEN "returned" ELSE "central"
    /\ UNCHANGED <<front_end, buildVars, searchVars, utilVars, packVars, itinVars, researchVars, requested, flightVars, need, settings, consulted, cities,
                   destination_countries, unique_cities, h_idx, hotels>>

\* line 44
SynthesizeHotels ==
    /\ front_end = "cascade"
    /\ cpc = "central"
    /\ consulted' = Append(consulted, "central")
    /\ outcome' = [outcome EXCEPT !["central"] =
                       IF FallbackHotels(unique_cities) # <<>> THEN "ok"
                       ELSE "empty"]
    /\ hotels' = FallbackHotels(unique_cities)
    /\ cpc' = "returned"
    /\ UNCHANGED <<front_end, buildVars, searchVars, utilVars, packVars, itinVars, researchVars, requested, flightVars, need, settings, cities,
                   destination_countries, unique_cities, h_idx>>

NextHotels ==
    \/ RecommendHotelsCall
    \/ ConsultHotelbeds
    \/ SerpapiStart
    \/ SerpapiCity
    \/ SerpapiDone
    \/ BookingStart
    \/ BookingCity
    \/ BookingDone
    \/ SynthesizeHotels

NextCascade == NextFlights \/ NextHotels

(***************************************************************************)
(* Ranking of search results: langgraph_agent.py, flight_researcher's      *)
(* _build_flights and hotel_researcher                                     *)
(***************************************************************************)
\* what the text heuristics and the row fields give for one row or one text
\* blob: a price of 0 is "no price found", a duration of 0 "no <n>h token",
\* a rating of NoRating "no star token"; a rating is the number found in
\* front of "star" or "/5", in tenths (45 for "4.5/5")
Feature(stops, dur, price, rating) ==
    [stops |-> stops, dur |-> dur, price |-> price, rating |-> rating]

\* one search result: the usable rows of its structured summary (none when
\* the summary is missing or does not parse) and what its title and content
\* give
Result(rows, text) == [rows |-> rows, text |-> text]

NoRating == -1

\* int(round(value)) of a number given in tenths: Python rounds a half to
\* the even neighbour
RoundHalfEven(tenths) ==
    LET whole == tenths \div 10
        rest == tenths % 10
    IN  IF rest < 5 THEN whole
        ELSE IF rest > 5 THEN whole + 1
        ELSE IF whole % 2 = 0 THEN whole ELSE whole + 1

\* _extract_rating lines 294-302: the number in front of "star" or "/5",
\* given in tenths, rounded; 4 when the pattern is not found
ExtractRating(rating) ==
    IF rating = NoRating THEN 4 ELSE RoundHalfEven(rating)

PriceSentinel == 9999999

DurationSentinel == 99

\* price or 9_999_999
PriceKey(price) == IF price = 0 THEN PriceSentinel ELSE price

\* _infer_duration_hours(text_blob) or 99
DurationKey(dur) == IF dur = 0 THEN DurationSentinel ELSE dur

\* a slip: the structured path ranks by price before stops
StructuredFlightScorePriceFirst(row) == <<PriceKey(row.price), row.stops>>

\* line 505
StructuredFlightScore(row) == <<row.stops, PriceKey(row.price)>>

\* a slip: the free-text path leaves the duration out of the key
TextFlightScoreNoDuration(text) == <<text.stops, PriceKey(text.price)>>

\* line 526
TextFlightScore(text) ==
    <<text.stops, DurationKey(text.dur), PriceKey(text.price)>>

\* lines 616 and 635
HotelScore(nightly, rating) == <<PriceKey(nightly), 0 - rating>>

\* an option remembers the path that made it and its place among the
\* candidates (the identity of the Python object)
FlightOptionEur(path, stops, dur, price, pos) ==
    [path |-> path, stops |-> stops, dur |-> dur, price_eur |-> price,
     star_rating |-> 0, pos |-> pos]

HotelOptionEur(path, rating, nightly, pos) ==
    [path |-> path, stops |-> 0, dur |-> 0, price_eur |-> nightly,
     star_rating |-> rating, pos |-> pos]

Candidate(score, option) == [score |-> score, option |-> option]

\* _build_flights lines 456-527 for one result; `n` candidates exist already
FlightCandidates(result, n) ==
    IF result.rows # <<>>
    THEN [k \in 1..Len(result.rows) |->
             Candidate(StructuredFlightScore(result.rows[k]),
                       FlightOptionEur("structured", result.rows[k].stops, 0,
                                       result.rows[k].price, n + k))]
    ELSE <<Candidate(TextFlightScore(result.text),
                     FlightOptionEur("text", result.text.stops,
                                     DurationKey(result.text.dur),
                                     result.text.price, n + 1))>>

\* hotel_researcher lines 584-636 for one result
HotelCandidates(result, n) ==
    IF result.rows # <<>>
    THEN [k \in 1..Len(result.rows) |->
             Candidate(HotelScore(result.rows[k].price,
                                  ExtractRating(result.rows[k].rating)),
                       HotelOptionEur("structured",
                                      ExtractRating(result.rows[k].rating),
                                      result.rows[k].price, n + k))]
    ELSE IF ExtractRating(result.text.rating) < 3 THEN <<>>
    ELSE <<Candidate(HotelScore(result.text.price,
                                ExtractRating(result.text.rating)),
                     HotelOptionEur("text", ExtractRating(result.text.rating),
                                    result.text.price, n + 1))>>

\* Python's a < b on tuples of numbers
RECURSIVE LexLess(_, _)
LexLess(a, b) ==
    IF b = <<>> THEN FALSE
    ELSE IF a = <<>> THEN TRUE
    ELSE IF Head(a) # Head(b) THEN Head(a) < Head(b)
    ELSE LexLess(Tail(a), Tail(b))

\* x goes in front of the first candidate whose score is greater than its own
RECURSIVE InsertByScore(_, _)
InsertByScore(sorted, x) ==
    IF sorted = <<>> THEN <<x>>
    ELSE IF LexLess(x.score, Head(sorted).score) THEN <<x>> \o sorted
    ELSE <<Head(sorted)>> \o InsertByScore(Tail(sorted), x)

\* a slip: the highest score first
RECURSIVE SortByScoreDescending(_)
SortByScoreDescending(cands) ==
    IF cands = <<>> THEN <<>>
    ELSE LET rest == SortByScoreDescending(Tail(cands))
             before == SelectSeq(rest, LAMBDA c : LexLess(Head(cands).score, c.score))
             after == SelectSeq(rest, LAMBDA c : ~LexLess(Head(cands).score, c.score))
         IN  before \o <<Head(cands)>> \o after

\* candidates.sort(key=lambda item: item[0]), lines 528 and 637: stable
RECURSIVE SortFrom(_, _)
SortFrom(sorted, cands) ==
    IF cands = <<>> THEN sorted
    ELSE SortFrom(InsertByScore(sorted, Head(cands)), Tail(cands))

SortByScore(cands) == SortFrom(<<>>, cands)

OptionsOf(cands) == [k \in 1..Len(cands) |-> cands[k].option]

FlightTopK == 3

HotelTopK == 2

\* a slip: the slice is taken before the sort
TakeThenSort(cands, top_k) == OptionsOf(SortByScore(Slice(cands, 0, top_k)))

\* [item[1] for item in candidates[:top_k]] of the sorted candidates, lines
\* 528-529 and 637-638
Ranked(cands, top_k) == OptionsOf(Slice(SortByScore(cands), 0, top_k))

\* the candidates of results[from..], lines 456 and 584
RECURSIVE CandidatesFrom(_, _, _, _)
CandidatesFrom(kind, found, from, cands) ==
    IF from > Len(found) THEN cands
    ELSE CandidatesFrom(kind, found, from + 1,
            cands \o (IF kind = "flights"
                      THEN FlightCandidates(found[from], Len(cands))
                      ELSE HotelCandidates(found[from], Len(cands))))

\* _build_flights lines 532-547
FlightFallback(found) ==
    [k \in 1..Len(Slice(found, 0, 3)) |->
        FlightOptionEur("raw", 1, DurationSentinel, found[k].text.price, 0)]

\* hotel_researcher lines 640-656
HotelFallback(found) ==
    [k \in 1..Len(Slice(found, 0, 2)) |->
        HotelOptionEur("raw", ExtractRating(found[k].text.rating),
                       found[k].text.price, 0)]

\* _build_flights lines 454-547
BuildFlights(found) ==
    LET ranked_options == Ranked(CandidatesFrom("flights", found, 1, <<>>), FlightTopK)
    IN  IF ranked_options # <<>> THEN ranked_options ELSE FlightFallback(found)

\* hotel_researcher lines 583-656, for one destination
BuildHotels(found) ==
    LET ranked_options == Ranked(CandidatesFrom("hotels", found, 1, <<>>), HotelTopK)
    IN  IF ranked_options # <<>> THEN ranked_options ELSE HotelFallback(found)

\* the search results a ranking run is given: one-row and two-row
\* structured flight summaries and free-text flight results
NoText == Feature(1, 0, 0, NoRating)

FlightResults ==
    {Result(<<Feature(s, 0, p, NoRating)>>, NoText) : s \in {0, 1}, p \in {0, 80, 100}}
    \cup {Result(<<Feature(1, 0, 50, NoRating), Feature(0, 0, 80, NoRating)>>, NoText)}
    \cup {Result(<<>>, Feature(s, d, p, NoRating)) :
             s \in {0, 1}, d \in {0, 5}, p \in {80, 100}}
    \cup {Result(<<>>, NoText)}

HotelResults ==
    {Result(<<Feature(0, 0, p, r)>>, NoText) : p \in {0, 80, 100}, r \in {NoRating, 50}}
    \cup {Result(<<Feature(0, 0, 80, r)>>, NoText) : r \in {20, 100}}
    \cup {Result(<<>>, Feature(0, 0, p, r)) : p \in {0, 80}, r \in {NoRating, 20, 50}}
    \cup {Result(<<>>, Feature(0, 0, 80, r)) : r \in {0, 45}}

TopK(kind) == IF kind = "flights" THEN FlightTopK ELSE HotelTopK

InitRank ==
    /\ rpc = "idle"
    /\ r_kind = "none"
    /\ results = <<>>
    /\ r_idx = 0
    /\ candidates = <<>>
    /\ built = <<>>
    /\ ranked = <<>>
    /\ returned = <<>>

\* _build_flights line 455 / hotel_researcher line 583, given the results
\* of one search
RankCall ==
    /\ front_end = "rank"
    /\ rpc = "idle"
    /\ \E kind \in {"flights", "hotels"} :
          /\ r_kind' = kind
          /\ results' \in SeqsUpTo(IF kind = "flights" THEN FlightResults
                                   ELSE HotelResults, MaxResults)
    /\ r_idx' = 1
    /\ candidates' = <<>>
    /\ rpc' = "scan"
    /\ UNCHANGED <<front_end, buildVars, searchVars, utilVars, packVars, batchVars, stageVars, built, ranked, returned>>

\* one turn of `for result in results`, lines 456-527 / 584-636
ScanResult ==
    /\ front_end = "rank"
    /\ rpc = "scan"
    /\ r_idx <= Len(results)
    /\ candidates' = CandidatesFrom(r_kind, Slice(results, 0, r_idx), r_idx, candidates)
    /\ r_idx' = r_idx + 1
    /\ UNCHANGED <<front_end, buildVars, searchVars, utilVars, packVars, batchVars, stageVars, rpc, r_kind, results, built,
                   ranked, returned>>

\* lines 528-529 / 637-638: the sort, in place, and the slice
RankCandidates ==
    /\ front_end = "rank"
    /\ rpc = "scan"
    /\ r_idx > Len(results)
    /\ built' = candidates
    /\ candidates' = SortByScore(candidates)
    /\ ranked' = Ranked(candidates, TopK(r_kind))
    /\ rpc' = "ranked"
    /\ UNCHANGED <<front_end, buildVars, searchVars, utilVars, packVars, batchVars, stageVars, r_kind, results, r_idx, returned>>

\* lines 530-547 / 639-657: the ranked list, or the raw fallback
ReturnRanked ==
    /\ front_end = "rank"
    /\ rpc = "ranked"
    /\ returned' = IF ranked # <<>> THEN ranked
                   ELSE IF r_kind = "flights" THEN FlightFallback(results)
                   ELSE HotelFallback(results)
    /\ rpc' = "returned"
    /\ UNCHANGED <<front_end, buildVars, searchVars, utilVars, packVars, batchVars, stageVars, r_kind, results, r_idx,
                   candidates, built, ranked>>

NextRank ==
    \/ RankCall
    \/ ScanResult
    \/ RankCandidates
    \/ ReturnRanked

(***************************************************************************)
(* Search-method cascade: langgraph_agent._agentic_results,                *)
(* services/exa_client.py and _search_with_tavily                          *)
(***************************************************************************)
\* one item of an engine's answer: what its "summary" field gives as rows
\* and what its title and text give
SearchItem(summary, text) == [summary |-> summary, text |-> text]

SearchItems ==
    {SearchItem(<<Feature(0, 0, 80, 50)>>, NoText),
     SearchItem(<<>>, Feature(1, 0, 80, NoRating)),
     SearchItem(<<>>, Feature(0, 0, 0, 20))}

\* EXA_API_KEY = os.getenv("EXA_API_KEY"), exa_client.py line 11
ExaApiKeys == {"unset", "", "key"}

\* a slip: an empty key counts as a credential
HasExaCredentialsIfSet(key) == key # "unset"

\* exa_client.has_exa_credentials, lines 19-20
HasExaCredentials(key) == key \notin {"unset", ""}

\* what the Exa endpoint answers
ExaReply(kind, found) == [kind |-> kind, found |-> found]

NoReply == ExaReply("none", <<>>)

\* a network or HTTP-status failure; a body that is not JSON; JSON that is
\* no object; an object whose "results" is no list; a list holding a
\* non-object; a list of result objects
ExaReplies ==
    {ExaReply(k, <<>>) : k \in {"http_error", "not_json", "not_object",
                                "results_not_list", "bad_item"}}
    \cup {ExaReply("results", r) : r \in SeqsUpTo(SearchItems, MaxResults)}

\* a slip: every failure of the agentic search is an ExaError
AgenticSearchAlwaysExaError(reply) ==
    IF reply.kind \in {"http_error", "not_json", "not_object"}
    THEN "ExaError" ELSE "none"

\* exa_client.agentic_search lines 49-57: the exception that leaves the call
AgenticSearchError(reply) ==
    CASE reply.kind = "http_error" -> "ExaError"
      [] reply.kind = "not_json" -> "ValueError"
      [] reply.kind = "not_object" -> "AttributeError"
      [] OTHER -> "none"

\* exa_client.agentic_search lines 58-61: the list the call returns
AgenticSearch(reply) ==
    IF reply.kind = "results_not_list" THEN <<>> ELSE reply.found

\* _normalize_exa_results line 214: result.get on an item that is no object
NormalizeError(reply) ==
    IF reply.kind = "bad_item" THEN "AttributeError" ELSE "none"

\* _normalize_exa_results lines 210-233: "structured_summary" is the item's
\* summary
NormalizeExaResults(found) ==
    [k \in 1..Len(found) |-> Result(found[k].summary, found[k].text)]

\* a Tavily item is handed on as it is: it has no "structured_summary" key,
\* so result.get("structured_summary") is None for it (lines 457 and 585)
TavilyResults(found) ==
    [k \in 1..Len(found) |-> Result(<<>>, found[k].text)]

TavilyReply(kind, found) == [kind |-> kind, found |-> found]

TavilyReplies ==
    {TavilyReply("error", <<>>)}
    \cup {TavilyReply("results", r) : r \in SeqsUpTo(SearchItems, MaxResults)}

InitSearch ==
    /\ qpc = "unloaded"
    /\ exa_api_key = "unset"
    /\ exa_reply = NoReply
    /\ invoked = <<>>
    /\ search_results = <<>>
    /\ search_error = "none"

\* import of exa_client: line 11
LoadExaClient ==
    /\ front_end = "search"
    /\ qpc = "unloaded"
    /\ exa_api_key' \in ExaApiKeys
    /\ qpc' = "idle"
    /\ UNCHANGED <<front_end, buildVars, utilVars, packVars, batchVars, researchVars,
                   exa_reply, invoked, search_results, search_error>>

\* _agentic_results lines 255-258
AgenticResultsCall ==
    /\ front_end = "search"
    /\ qpc \in {"idle", "returned", "raised"}
    /\ exa_reply' = NoReply
    /\ invoked' = <<>>
    /\ search_results' = <<>>
    /\ search_error' = "none"
    /\ qpc' = IF HasExaCredentials(exa_api_key) THEN "exa" ELSE "tavily"
    /\ UNCHANGED <<front_end, buildVars, utilVars, packVars, batchVars, researchVars,
                   exa_api_key>>

\* lines 259-267: agentic_search and _normalize_exa_results inside the try
\* that catches ExaError
AgenticSearchStep ==
    /\ front_end = "search"
    /\ qpc = "exa"
    /\ invoked' = Append(invoked, "exa")
    /\ \E reply \in ExaReplies :
          /\ exa_reply' = reply
          /\ IF AgenticSearchError(reply) = "ExaError"
             THEN /\ qpc' = "tavily"
                  /\ UNCHANGED <<search_results, search_error>>
             ELSE IF AgenticSearchError(reply) # "none"
             THEN /\ qpc' = "raised"
                  /\ search_error' = AgenticSearchError(reply)
                  /\ UNCHANGED search_results
             ELSE IF NormalizeError(reply) # "none"
             THEN /\ qpc' = "raised"
                  /\ search_error' = NormalizeError(reply)
                  /\ UNCHANGED search_results
             ELSE IF NormalizeExaResults(AgenticSearch(reply)) # <<>>
             THEN /\ qpc' = "returned"
                  /\ search_results' = NormalizeExaResults(AgenticSearch(reply))
                  /\ UNCHANGED search_error
             ELSE /\ qpc' = "tavily"
                  /\ UNCHANGED <<search_results, search_error>>
    /\ UNCHANGED <<front_end, buildVars, utilVars, packVars, batchVars, researchVars,
                   exa_api_key>>

\* line 268 with _search_with_tavily lines 201-207
SearchWithTavily ==
    /\ front_end = "search"
    /\ qpc = "tavily"
    /\ invoked' = Append(invoked, "tavily")
    /\ \E reply \in TavilyReplies :
          IF reply.kind = "error"
          THEN /\ qpc' = "raised"
               /\ search_error' = "RuntimeError"
               /\ UNCHANGED search_results
          ELSE /\ qpc' = "returned"
               /\ search_results' = TavilyResults(reply.found)
               /\ UNCHANGED search_error
    /\ UNCHANGED <<front_end, buildVars, utilVars, packVars, batchVars, researchVars,
                   exa_api_key, exa_reply>>

NextSearch ==
    \/ LoadExaClient
    \/ AgenticResultsCall
    \/ AgenticSearchStep
    \/ SearchWithTavily

(***************************************************************************)
(* The initial state of a run: langgraph_agent.build_initial_state,        *)
(* _calculate_destination_dates and _determine_primary                     *)
(***************************************************************************)
\* a date string is its day number when it is written zero-padded, as
\* strftime writes it, and its day number + UnpaddedForm when month or day
\* is written without the zero ("2025-6-1"), which strptime accepts too
UnpaddedForm == 100

StartStrings == {1, UnpaddedForm + 1, NotADate}

\* _iso_date lines 122-127, for a string strptime accepts
_iso_date(value) == IF value > UnpaddedForm THEN value - UnpaddedForm ELSE value

\* _format_iso lines 130-131
_format_iso(day) == day

\* payload["destinations"][k]
DestinationPayload(country, city, nights) ==
    [country |-> country, city |-> city, nights |-> nights]

DestinationPayloads ==
    {DestinationPayload("France", "Paris", n) : n \in {1, 3}}
    \cup {DestinationPayload("Italy", "Rome", n) : n \in {0, 1, 3}}

\* the keys of a payload that build_initial_state computes with; "None" is
\* a missing primary_destination_country
StatePayload(dests, start, primary) ==
    [destinations |-> dests, trip_start_date |-> start,
     primary_destination_country |-> primary,
     primary_destination_city |-> "None"]

StatePayloads ==
    {StatePayload(dests, start, primary) :
        dests \in SeqsUpTo(DestinationPayloads, MaxStays),
        start \in StartStrings, primary \in {"None", "Spain"}}

\* DestinationInfo, lines 855-863 and 146-152
DestinationInfo(dest, check_in, check_out) ==
    [country |-> dest.country, city |-> dest.city, nights |-> dest.nights,
     check_in |-> check_in, check_out |-> check_out]

\* the loop of _calculate_destination_dates, lines 142-153, from the stay
\* at `cursor` on
RECURSIVE DestinationDatesFrom(_, _)
DestinationDatesFrom(dests, cursor) ==
    IF dests = <<>> THEN <<>>
    ELSE <<DestinationInfo(Head(dests), _format_iso(cursor),
                           _format_iso(cursor + Head(dests).nights))>>
         \o DestinationDatesFrom(Tail(dests), cursor + Head(dests).nights)

RECURSIVE TotalNights(_)
TotalNights(dests) ==
    IF dests = <<>> THEN 0 ELSE Head(dests).nights + TotalNights(Tail(dests))

\* sorted(destinations, key=nights, reverse=True), line 161: a stable sort,
\* so of two stays of equal nights the earlier stays in front
RECURSIVE InsertByNights(_, _)
InsertByNights(sorted, dest) ==
    IF sorted = <<>> THEN <<dest>>
    ELSE IF Head(sorted).nights < dest.nights THEN <<dest>> \o sorted
    ELSE <<Head(sorted)>> \o InsertByNights(Tail(sorted), dest)

RECURSIVE SortedByNights(_, _)
SortedByNights(sorted, dests) ==
    IF dests = <<>> THEN sorted
    ELSE SortedByNights(InsertByNights(sorted, Head(dests)), Tail(dests))

\* a slip: of two stays of equal nights the later one wins
DeterminePrimaryLastWins(dests) ==
    LET most == {k \in 1..Len(dests) :
                    \A j \in 1..Len(dests) : dests[j].nights <= dests[k].nights}
    IN  <<dests[MaxOf(most)].country, dests[MaxOf(most)].city>>

\* _determine_primary lines 157-163, for a non-empty list
_determine_primary(dests) ==
    LET top == Head(SortedByNights(<<>>, dests))
    IN  <<top.country, top.city>>

\* build_initial_state lines 851-853 and _iso_date: ValueError
BuildInitialStateError(p) ==
    p.destinations = <<>> \/ StrptimeRaises(p.trip_start_date)

NoState ==
    [trip_start_date |-> NoDate, trip_end_date |-> NoDate, total_nights |-> 0,
     destinations |-> <<>>, primary_destination |-> "None",
     primary_destination_city |-> "None"]

\* build_initial_state lines 850-897: the keys computed from the payload
build_initial_state(p) ==
    LET start == _iso_date(p.trip_start_date)
        updated == DestinationDatesFrom(p.destinations, start)
        total_nights == TotalNights(p.destinations)
        given == p.primary_destination_country # "None"
    IN  [trip_start_date |-> p.trip_start_date,
         trip_end_date |-> _format_iso(start + total_nights),
         total_nights |-> total_nights,
         destinations |-> updated,
         primary_destination |->
             IF given THEN p.primary_destination_country
             ELSE _determine_primary(updated)[1],
         primary_destination_city |->
             IF given THEN p.primary_destination_city
             ELSE _determine_primary(updated)[2]]

InitBuild ==
    /\ bpc = "idle"
    /\ state_payload = StatePayload(<<>>, NoDate, "None")
    /\ initial_state = NoState

\* a call of build_initial_state
BuildInitialState ==
    /\ front_end = "initial"
    /\ bpc = "idle"
    /\ \E p \in StatePayloads :
          /\ state_payload' = p
          /\ IF BuildInitialStateError(p)
             THEN /\ bpc' = "raised"
                  /\ UNCHANGED initial_state
             ELSE /\ bpc' = "built"
                  /\ initial_state' = build_initial_state(p)
    /\ UNCHANGED <<front_end, searchVars, utilVars, packVars, batchVars,
                   researchVars>>

NextBuild == BuildInitialState

(***************************************************************************)
(* Interactive stage machine: langgraph_agent.py, the graph of             *)
(* _build_graph run by run_vpagent                                         *)
(***************************************************************************)
\* workflow.add_node, lines 827-832, in the order of the edges
StageOrder ==
    <<"flight_research", "hotel_research", "insurance_research",
      "document_generation", "preview", "final_output">>

\* a slip: the preview stage is wired straight to the end
GraphEdgeSkippingFinal(node) ==
    CASE node = "flight_research" -> "hotel_research"
      [] node = "hotel_research" -> "insurance_research"
      [] node = "insurance_research" -> "document_generation"
      [] node = "document_generation" -> "preview"
      [] node = "preview" -> "END"
      [] node = "final_output" -> "END"

\* workflow.add_edge, lines 835-840
GraphEdge(node) ==
    CASE node = "flight_research" -> "hotel_research"
      [] node = "hotel_research" -> "insurance_research"
      [] node = "insurance_research" -> "document_generation"
      [] node = "document_generation" -> "preview"
      [] node = "preview" -> "final_output"
      [] node = "final_output" -> "END"

\* workflow.set_entry_point, line 834
EntryPoint == "flight_research"

\* a slip: the channel keeps the update as it is
MessagesLastValue(old, update) == update

\* messages: Annotated[List, operator.add], line 90: the channel's new value
\* is its old value + the value the node returned for it
MessagesReducer(old, update) == old \o update

\* what the two search engines answer to one query: Exa is not configured,
\* fails with an ExaError, answers with a malformed body, finds nothing or
\* answers; Tavily fails or answers; `found` is the list of the engine whose
\* answer is used, and a Tavily answer has no structured rows
SearchReply(exa, tavily, found) == [exa |-> exa, tavily |-> tavily, found |-> found]

SearchReplies(lists) ==
    {reply \in {SearchReply(e, t, r) :
                   e \in {"nocreds", "error", "malformed", "empty", "hit"},
                   t \in {"error", "hit"}, r \in lists} :
        \/ reply.exa = "hit" /\ reply.found # <<>>
        \/ reply.found = TavilyResults([k \in 1..Len(reply.found) |->
                             SearchItem(reply.found[k].rows, reply.found[k].text)])}

\* _agentic_results lines 255-268 with _search_with_tavily lines 201-207:
\* whether the search raises (a failure of Exa that is no ExaError, or a
\* failure of Tavily)
AgenticRaises(reply) ==
    \/ reply.exa = "malformed"
    \/ ~(reply.exa = "hit" /\ reply.found # <<>>) /\ reply.tavily = "error"

\* _agentic_results lines 255-268: the results of the search
AgenticResults(reply) == reply.found

TwoFlightRows ==
    Result(<<Feature(1, 0, 50, NoRating), Feature(0, 0, 80, NoRating)>>, NoText)

\* the result lists a flight search of a run may find
StageFlightLists ==
    {<<>>, <<TwoFlightRows>>, <<TwoFlightRows, TwoFlightRows>>,
     <<Result(<<>>, Feature(1, 5, 100, NoRating)),
       Result(<<>>, Feature(1, 0, 80, NoRating))>>}

TwoHotelRows ==
    Result(<<Feature(0, 0, 100, 50), Feature(0, 0, 80, NoRating)>>, NoText)

LowRatedHotel == Result(<<>>, Feature(0, 0, 80, 20))

\* the result lists a hotel search of a run may find
StageHotelLists ==
    {<<>>, <<TwoHotelRows, TwoHotelRows>>, <<LowRatedHotel>>,
     <<LowRatedHotel, LowRatedHotel, LowRatedHotel>>}

\* the result lists an insurance search of a run may find
StageInsuranceLists ==
    {<<>>, <<Result(<<>>, NoText)>>,
     <<Result(<<>>, NoText), Result(<<>>, Feature(0, 0, 80, NoRating)),
       Result(<<>>, NoText), Result(<<>>, NoText)>>}

\* payload["destinations"]: the cities of a run, in order
StageDestinations == {<<"Paris">>, <<"Paris", "Rome">>, <<"Paris", "Paris">>}

EmptyDict == [c \in {} |-> <<>>]

\* hotels_by_city[dest["city"]] = ranked, line 657, over the destinations
\* from `from` on: a later destination of the same city overwrites
RECURSIVE HotelsByCity(_, _, _, _)
HotelsByCity(dests, replies, from, dict) ==
    IF from > Len(dests) THEN dict
    ELSE HotelsByCity(dests, replies, from + 1,
            [c \in DOMAIN dict \cup {dests[from]} |->
                IF c = dests[from]
                THEN BuildHotels(AgenticResults(replies[from]))
                ELSE dict[c]])

\* insurance_researcher lines 676-690
InsuranceOptions(found) ==
    [k \in 1..Len(Slice(found, 0, 3)) |->
        [provider |-> k, price_per_person_eur |-> found[k].text.price]]

\* thread_id or "vpagent-run", line 903
ThreadIds == {"vpagent-run", "session-b"}

\* what a checkpoint keeps of the message channel
Saved(log, runs) == [messages |-> log, msg_run |-> runs]

NoCheckpoints == [tid \in ThreadIds |-> Saved(<<>>, <<>>)]

\* the keys of a payload that build_initial_state checks
Payload(dests, start) == [destinations |-> dests, trip_start_date |-> start]

NoPayload == Payload(<<"Paris">>, 1)

Payloads ==
    {Payload(dests, start) :
        dests \in StageDestinations \cup {<<>>}, start \in {1, NotADate}}

\* build_initial_state lines 851-853 and _calculate_destination_dates line
\* 138: ValueError for no destination and for a start that is no date
BuildInitialStateRaises(p) ==
    p.destinations = <<>> \/ StrptimeRaises(p.trip_start_date)

InitStage ==
    /\ spc = "idle"
    /\ destinations = <<>>
    /\ current_step = "none"
    /\ is_complete = FALSE
    /\ messages = <<>>
    /\ executed = <<>>
    /\ outbound_flights = <<>>
    /\ return_flights = <<>>
    /\ hotels_by_city = EmptyDict
    /\ insurance_options = <<>>
    /\ documents = FALSE
    /\ preview_markdown = FALSE
    /\ invocation = "none"
    /\ thread_id = "none"
    /\ checkpoint = NoCheckpoints
    /\ msg_run = <<>>
    /\ payload = NoPayload

\* run_vpagent lines 900-904: build_initial_state (lines 850-897) and the
\* start of app.invoke at the entry point, on the one compiled graph of
\* get_vpagent_app (lines 845-847) with its MemorySaver (line 841): the
\* input is written to the channels restored from the thread's checkpoint.
\* build_initial_state sets every other key, so of a checkpoint only the
\* message channel outlives the write of the input.
RunVpagent ==
    /\ front_end \in {"stage", "threads"}
    /\ \/ spc = "idle" /\ invocation' = "first"
       \/ /\ front_end = "threads"
          /\ spc \in {"END", "aborted", "rejected"}
          /\ invocation = "first"
          /\ invocation' = "second"
    /\ \E tid \in ThreadIds, p \in Payloads :
          /\ thread_id' = tid
          /\ payload' = p
          /\ IF BuildInitialStateRaises(p)
             THEN /\ spc' = "rejected"
                  /\ UNCHANGED <<destinations, current_step, is_complete,
                                 messages, executed, outbound_flights,
                                 return_flights, hotels_by_city,
                                 insurance_options, documents,
                                 preview_markdown, checkpoint, msg_run>>
             ELSE /\ messages' = MessagesReducer(checkpoint[tid].messages, <<>>)
                  /\ msg_run' = MessagesReducer(checkpoint[tid].msg_run, <<>>)
                  /\ checkpoint' = [checkpoint EXCEPT ![tid] =
                         Saved(MessagesReducer(checkpoint[tid].messages, <<>>),
                               MessagesReducer(checkpoint[tid].msg_run, <<>>))]
                  /\ executed' = <<>>
                  /\ destinations' = p.destinations
                  /\ current_step' = "start"
                  /\ is_complete' = FALSE
                  /\ outbound_flights' = <<>>
                  /\ return_flights' = <<>>
                  /\ hotels_by_city' = EmptyDict
                  /\ insurance_options' = <<>>
                  /\ documents' = FALSE
                  /\ preview_markdown' = FALSE
                  /\ spc' = EntryPoint
    /\ UNCHANGED <<front_end, buildVars, searchVars, utilVars, packVars, batchVars, rankVars>>

\* what every node does on return: the marker, the message channel, the
\* record of the stage and the edge to the next node
Republish(node, next_step, message) ==
    /\ current_step' = next_step
    /\ messages' = MessagesReducer(messages, messages \o <<message>>)
    /\ msg_run' = MessagesReducer(msg_run, msg_run \o <<invocation>>)
    /\ checkpoint' = [checkpoint EXCEPT ![thread_id] =
           Saved(MessagesReducer(messages, messages \o <<message>>),
                 MessagesReducer(msg_run, msg_run \o <<invocation>>))]
    /\ executed' = Append(executed, node)
    /\ spc' = GraphEdge(node)

\* an exception leaves the node: app.invoke raises, no update is applied
Abort ==
    /\ spc' = "aborted"
    /\ UNCHANGED <<current_step, messages, executed, msg_run, checkpoint>>

\* flight_researcher lines 427-564
FlightResearcher ==
    /\ front_end \in {"stage", "threads"}
    /\ spc = "flight_research"
    /\ \E out \in SearchReplies(StageFlightLists),
          ret \in SearchReplies(StageFlightLists) :
          IF AgenticRaises(out) \/ AgenticRaises(ret)
          THEN /\ Abort
               /\ UNCHANGED <<outbound_flights, return_flights>>
          ELSE /\ outbound_flights' = BuildFlights(AgenticResults(out))
               /\ return_flights' = BuildFlights(AgenticResults(ret))
               /\ Republish("flight_research", "hotel_research", "flights")
    /\ UNCHANGED <<front_end, buildVars, searchVars, utilVars, packVars, batchVars, rankVars, threadVars, destinations, is_complete,
                   hotels_by_city, insurance_options, documents, preview_markdown>>

\* hotel_researcher lines 567-665
HotelResearcher ==
    /\ front_end \in {"stage", "threads"}
    /\ spc = "hotel_research"
    /\ \E replies \in [1..Len(destinations) -> SearchReplies(StageHotelLists)] :
          IF \E k \in 1..Len(destinations) : AgenticRaises(replies[k])
          THEN /\ Abort
               /\ UNCHANGED hotels_by_city
          ELSE /\ hotels_by_city' = HotelsByCity(destinations, replies, 1, EmptyDict)
               /\ Republish("hotel_research", "insurance_research", "hotels")
    /\ UNCHANGED <<front_end, buildVars, searchVars, utilVars, packVars, batchVars, rankVars, threadVars, destinations, is_complete,
                   outbound_flights, return_flights, insurance_options, documents,
                   preview_markdown>>

\* insurance_researcher lines 668-697
InsuranceResearcher ==
    /\ front_end \in {"stage", "threads"}
    /\ spc = "insurance_research"
    /\ \E reply \in SearchReplies(StageInsuranceLists) :
          IF AgenticRaises(reply)
          THEN /\ Abort
               /\ UNCHANGED insurance_options
          ELSE /\ insurance_options' = InsuranceOptions(AgenticResults(reply))
               /\ Republish("insurance_research", "document_generation", "insurance")
    /\ UNCHANGED <<front_end, buildVars, searchVars, utilVars, packVars, batchVars, rankVars, threadVars, destinations, is_complete,
                   outbound_flights, return_flights, hotels_by_city, documents,
                   preview_markdown>>

\* itinerary_writer lines 700-753: two LLM calls, neither inside a try
ItineraryWriter ==
    /\ front_end \in {"stage", "threads"}
    /\ spc = "document_generation"
    /\ \E llm_fails \in BOOLEAN :
          IF llm_fails
          THEN /\ Abort
               /\ UNCHANGED documents
          ELSE /\ documents' = TRUE
               /\ Republish("document_generation", "preview", "documents")
    /\ UNCHANGED <<front_end, buildVars, searchVars, utilVars, packVars, batchVars, rankVars, threadVars, destinations, is_complete,
                   outbound_flights, return_flights, hotels_by_city,
                   insurance_options, preview_markdown>>

\* preview_generator lines 756-805
PreviewGenerator ==
    /\ front_end \in {"stage", "threads"}
    /\ spc = "preview"
    /\ preview_markdown' = TRUE
    /\ Republish("preview", "final_output", "preview")
    /\ UNCHANGED <<front_end, buildVars, searchVars, utilVars, packVars, batchVars, rankVars, threadVars, destinations, is_complete,
                   outbound_flights, return_flights, hotels_by_city,
                   insurance_options, documents>>

\* final_output lines 808-817
FinalOutput ==
    /\ front_end \in {"stage", "threads"}
    /\ spc = "final_output"
    /\ is_complete' = TRUE
    /\ Republish("final_output", "complete", "approved")
    /\ UNCHANGED <<front_end, buildVars, searchVars, utilVars, packVars, batchVars, rankVars, threadVars, destinations, outbound_flights,
                   return_flights, hotels_by_city, insurance_options, documents,
                   preview_markdown>>

NextStage ==
    \/ RunVpagent
    \/ FlightResearcher
    \/ HotelResearcher
    \/ InsuranceResearcher
    \/ ItineraryWriter
    \/ PreviewGenerator
    \/ FinalOutput

(***************************************************************************)
(* Batch pipeline: visa_pack.generate_visa_pack and the agents it calls    *)
(***************************************************************************)
NoMax == 0          \* budget_per_person_max_inr is None

\* (start_date, end_date) of a request: one day, two days, an end before
\* the start, a start or an end that is no date
DatePairs == {<<1, 1>>, <<1, 2>>, <<2, 1>>, <<NotADate, 1>>, <<1, NotADate>>}

Countries == {"France", "ITALY", "India"}

\* c.lower() of a country name
LowerCountry(c) ==
    CASE c = "France" -> "france"
      [] c = "ITALY" -> "italy"
      [] c = "India" -> "india"
      [] OTHER -> c

\* apply_rules_agent lines 43-73
schengen_countries ==
    {"austria", "belgium", "bulgaria", "croatia", "czechia", "denmark",
     "estonia", "finland", "france", "germany", "greece", "hungary",
     "iceland", "italy", "latvia", "liechtenstein", "lithuania",
     "luxembourg", "malta", "netherlands", "norway", "poland", "portugal",
     "romania", "slovakia", "slovenia", "spain", "sweden", "switzerland"}

\* a slip: the names are compared as they were typed
DestAsTyped(dests) == {dests[k] : k \in 1..Len(dests)}

\* line 74: {c.lower() for c in trip_request.destination_countries}
DestLower(dests) == {LowerCountry(dests[k]) : k \in 1..Len(dests)}

\* apply_rules_agent lines 75-105: the visa_type of the rules returned
apply_rules_agent(dests) ==
    IF DestLower(dests) \cap schengen_countries # {}
    THEN "Schengen Short-Stay (Type C)"
    ELSE "Generic Tourist Visa"

\* a slip: the band is compared as it was typed
BudgetRangeAsTyped(band) ==
    CASE band = "low" -> <<100000, 150000>>
      [] band = "medium" -> <<150000, 300000>>
      [] band = "high" -> <<300000, NoMax>>
      [] OTHER -> <<150000, 300000>>

\* apply_budget_band_to_plan lines 29-37: (min_inr, max_inr)
BudgetRange(band) ==
    CASE BandKey(band) = "low" -> <<100000, 150000>>
      [] BandKey(band) = "medium" -> <<150000, 300000>>
      [] BandKey(band) = "high" -> <<300000, NoMax>>
      [] OTHER -> <<150000, 300000>>

\* TripRequest, models.py lines 8-23: the fields the pipeline branches on
TripRequest(dates, dests, band) ==
    [start_date |-> dates[1], end_date |-> dates[2],
     destination_countries |-> dests, budget_band |-> band, trip_theme |-> ""]

TripRequests ==
    {TripRequest(dates, dests, band) :
        dates \in DatePairs, dests \in SeqsUpTo(Countries, MaxDestinations),
        band \in BudgetBands}

NoRequest == TripRequest(<<1, 1>>, <<>>, "none")

\* TripPlan(request=...), models.py lines 88-100
TripPlan(rules, itin, fl, ho, ins, docs, issues, lo, hi) ==
    [rules |-> rules, itinerary |-> itin, flights |-> fl, hotels |-> ho,
     insurance_options |-> ins, documents |-> docs,
     validation_issues |-> issues, budget_per_person_min_inr |-> lo,
     budget_per_person_max_inr |-> hi]

NewTripPlan == TripPlan("None", <<>>, <<>>, <<>>, 0, "None", <<>>, NoMax, NoMax)

\* what a fetch gives its caller: an exception, or a list of options
Raised == [raised |-> TRUE, options |-> <<>>]

Got(options) == [raised |-> FALSE, options |-> options]

\* provider answers tried by the pipeline: a failed call, a wrongly typed
\* payload, one offer, one offer with a price that is no number
PackFlightResponses ==
    {Response("error", <<>>), Response("bad_data", <<>>),
     Response("offers", <<"round">>), Response("offers", <<"badprice">>)}

PackHotelResponses ==
    {Response("bad_data", <<>>), Response("offers", <<"named">>),
     Response("offers", <<"badprice">>)}

\* recommend_flights lines 50-66 as a function of what the environment
\* holds and what the providers answer
RecommendFlights(env, avia, has_token, amadeus, band) ==
    LET avia_on == env["travelpayouts_token"] /\ env["aviasales_partner_id"]
        token_on == env["amadeus_api_key"] /\ env["amadeus_api_secret"]
                    /\ has_token
    IN  IF avia_on /\ AviasalesRaises(avia) THEN Raised
        ELSE IF avia_on /\ NonEmpty(FetchAviasales(avia))
        THEN Got(FetchAviasales(avia))
        ELSE IF token_on /\ NonEmpty(FetchAmadeus(amadeus))
        THEN Got(FetchAmadeus(amadeus))
        ELSE Got(FallbackRecommendations(band))

\* _serpapi_hotels lines 158-178 over the cities
RECURSIVE SerpapiHotels(_, _)
SerpapiHotels(resp, cs) ==
    IF cs = <<>> THEN <<>>
    ELSE SerpCityHotels(resp, Head(cs)) \o SerpapiHotels(resp, Tail(cs))

\* _booking_com_hotels lines 82-86 over the cities
RECURSIVE BookingComHotels(_, _)
BookingComHotels(resp, cs) ==
    IF cs = <<>> THEN <<>>
    ELSE BookingCityHotels(resp, Head(cs)) \o BookingComHotels(resp, Tail(cs))

\* recommend_hotels lines 20-44 as a function of what the environment holds
\* and what the providers answer
RecommendHotels(env, hb, serp, book, cs, dests) ==
    LET unique == UniqueCities(cs, dests)
        hb_on == env["hotelbeds_api_key"] /\ env["hotelbeds_api_secret"]
        serp_on == env["serpapi_key"] /\ unique # <<>>
        book_on == env["rapidapi_key"] /\ unique # <<>>
    IN  IF hb_on /\ HotelbedsRaises(hb) THEN Raised
        ELSE IF hb_on /\ NonEmpty(HotelbedsHotels(hb, unique))
        THEN Got(HotelbedsHotels(hb, unique))
        ELSE IF serp_on /\ SerpRaises(serp) THEN Raised
        ELSE IF serp_on /\ NonEmpty(SerpapiHotels(serp, unique))
        THEN Got(SerpapiHotels(serp, unique))
        ELSE IF book_on /\ BookingRaises(book) THEN Raised
        ELSE IF book_on /\ NonEmpty(BookingComHotels(book, unique))
        THEN Got(BookingComHotels(book, unique))
        ELSE Got(FallbackHotels(unique))

\* every result of recommend_flights, over the environments and answers
FlightOutcomes(band) ==
    {RecommendFlights(env, avia, has_token, amadeus, band) :
        env \in Environments(FlightSettings), has_token \in BOOLEAN,
        avia \in PackFlightResponses, amadeus \in PackFlightResponses}

\* every result of recommend_hotels, over the environments and answers
HotelOutcomes(cs, dests) ==
    {RecommendHotels(env, hb, serp, book, cs, dests) :
        env \in Environments(HotelSettings), hb \in PackHotelResponses,
        serp \in PackHotelResponses, book \in PackHotelResponses}

\* recommend_hotels_agent lines 253-257: the itinerary's cities, each once
RECURSIVE ItineraryCities(_, _)
ItineraryCities(itin, cs) ==
    IF itin = <<>> THEN cs
    ELSE ItineraryCities(Tail(itin),
                         IF Head(itin).city \in Range(cs) THEN cs
                         ELSE Append(cs, Head(itin).city))

\* what the segments give plan_itinerary_agent for dates of one segment:
\* generated entries, or the fallback entries of lines 230-233
PackDayPlans(dates, dests) ==
    {[k \in 1..Len(dates) |-> DayPlan(dates[k], city, FillerSummary, src)] :
        city \in {"Paris", dests[1]}, src \in {0}}

\* a slip: the flight list is not looked at
ValidationIssuesWithoutFlights(plan) ==
    (IF plan.itinerary = <<>> THEN <<"No itinerary generated.">> ELSE <<>>)
    \o (IF plan.hotels = <<>> THEN <<"No hotel options generated.">> ELSE <<>>)

\* validate_trip_agent lines 313-319
ValidationIssues(plan) ==
    (IF plan.itinerary = <<>> THEN <<"No itinerary generated.">> ELSE <<>>)
    \o (IF plan.flights = <<>> THEN <<"No flight options generated.">> ELSE <<>>)
    \o (IF plan.hotels = <<>> THEN <<"No hotel options generated.">> ELSE <<>>)

\* DayPlan's defaulted fields, models.py lines 31-33: no stay options, no
\* activities, transport None
Transport(kind, a, b) == [kind |-> kind, a |-> a, b |-> b]

NoTransport == Transport("None", "", "")

NewDayPlan(dp) ==
    [date |-> dp.date, city |-> dp.city, summary |-> dp.summary, src |-> dp.src,
     stay_options |-> <<>>, activities |-> <<>>, transport |-> NoTransport]

NewDayPlans(plans) == [k \in 1..Len(plans) |-> NewDayPlan(plans[k])]

\* format_hotel_option lines 425-429: the hotel's name, price and link (the
\* link stands for the hotel the string was made from)
format_hotel_option(hotel) ==
    [name |-> hotel.name, price |-> hotel.approx_price_per_night_in_inr,
     link |-> <<hotel.source, hotel.pos>>]

\* hotels_by_city.get(day.city, []), lines 271-279: the plan's hotels of the
\* city, in plan order
HotelsByCityGet(plan_hotels, city) ==
    SelectSeq(plan_hotels, LAMBDA h : h.city = city)

\* a slip: no fallback to the plan-wide hotels
CityHotelsWithoutFallback(plan_hotels, city) ==
    HotelsByCityGet(plan_hotels, city)

\* lines 279-281
CityHotels(plan_hotels, city) ==
    IF HotelsByCityGet(plan_hotels, city) = <<>> /\ plan_hotels # <<>>
    THEN Slice(plan_hotels, 0, 3)
    ELSE HotelsByCityGet(plan_hotels, city)

\* line 282
StayOptions(plan_hotels, city) ==
    LET kept == Slice(CityHotels(plan_hotels, city), 0, 2)
    IN  [k \in 1..Len(kept) |-> format_hotel_option(kept[k])]

Themes == {"", "Food", "Gastronomic history", "Grand tour", "Beach"}

\* theme = (trip_theme or "").lower() and the substring tests of lines
\* 449 and 454, for the themes of the model
ThemeKind(theme) ==
    IF theme \in {"Food", "Gastronomic history"} THEN "food"
    ELSE IF theme \in {"Grand tour"} THEN "culture"
    ELSE IF theme # "" THEN "tailored"
    ELSE "generic"

\* one line of a day's activities
Note(kind, a, b) == [kind |-> kind, a |-> a, b |-> b]

\* themed_activity_suggestions lines 432-452: two suggestions
themed_activity_suggestions(city, theme) ==
    LET base_city == IF city = "" THEN "the city" ELSE city
    IN  <<Note(ThemeKind(theme), "first", base_city),
          Note(ThemeKind(theme), "second", "")>>

\* lines 286-293
ArrivalNote(inbound) == Note("arrival", inbound.airline, inbound.label)

\* line 294
ArrivalLabel(inbound) == Transport("arrival", inbound.label, "")

\* lines 302-308
DepartureNote(outbound) == Note("departure", outbound.airline, outbound.label)

\* line 309
DepartureLabel(outbound) == Transport("departure", outbound.label, "")

\* a slip: every day after the first is a travel day
TravelEveryDay(prev_city, next_city) == Transport("travel", prev_city, next_city)

\* build_transport_suggestion lines 455-458
build_transport_suggestion(prev_city, next_city) ==
    IF prev_city = next_city THEN Transport("local", "", "")
    ELSE Transport("travel", prev_city, next_city)

\* line 299: "Local transit / walking"
FirstDayWithoutFlight == Transport("local_first", "", "")

\* a slip: the days are rebuilt from date and city, the summary is lost
EnrichDayLosingSummary(itin, idx, plan_hotels, plan_flights, theme) ==
    [itin[idx] EXCEPT !.summary = "",
                      !.stay_options = StayOptions(plan_hotels, itin[idx].city)]

\* one turn of the loop of enrich_itinerary, lines 278-309; idx counts
\* from 1
EnrichDay(itin, idx, plan_hotels, plan_flights, theme) ==
    LET day == itin[idx]
        first == idx = 1 /\ plan_flights # <<>>
        last == idx = Len(itin) /\ plan_flights # <<>>
        suggested == themed_activity_suggestions(day.city, theme)
        arrived == IF first THEN <<ArrivalNote(plan_flights[1])>> \o suggested
                   ELSE suggested
        moved == IF first THEN ArrivalLabel(plan_flights[1])
                 ELSE IF idx > 1
                 THEN build_transport_suggestion(itin[idx - 1].city, day.city)
                 ELSE FirstDayWithoutFlight
    IN  [day EXCEPT
            !.stay_options = StayOptions(plan_hotels, day.city),
            !.activities =
                IF last
                THEN Append(arrived, DepartureNote(plan_flights[Len(plan_flights)]))
                ELSE arrived,
            !.transport =
                IF last THEN DepartureLabel(plan_flights[Len(plan_flights)])
                ELSE moved]

\* enrich_itinerary lines 267-309
enrich_itinerary(itin, plan_hotels, plan_flights, theme) ==
    [idx \in 1..Len(itin) |-> EnrichDay(itin, idx, plan_hotels, plan_flights, theme)]

\* plans a caller of enrich_itinerary builds, as the tests call the agents
\* one by one: itineraries over two cities, hotels of these cities and of a
\* third, no flight, one flight or two
EnrichCities == {"Paris", "Rome"}

EnrichHotels ==
    {HotelOption("Hotel", c, FallbackRate, "direct", 0) : c \in {"Paris", "Rome", "Lyon"}}

EnrichFlights ==
    {<<>>, <<FlightOption("Inbound Option", "Air One", OfferPrice)>>,
     <<FlightOption("Inbound Option", "Air One", OfferPrice),
       FlightOption("Outbound Option", "Air Two", OfferPrice)>>}

EnrichPlans ==
    {TripPlan("None",
              [k \in 1..Len(cs) |->
                  NewDayPlan(DayPlan(k, cs[k], FillerSummary, k))],
              fl, ho, 0, "None", <<>>, NoMax, NoMax) :
        cs \in SeqsUpTo(EnrichCities, MaxEnrichDays),
        fl \in EnrichFlights,
        ho \in SeqsUpTo(EnrichHotels, MaxEnrichHotels)}

InitPack ==
    /\ gpc = "idle"
    /\ trip_request = NoRequest
    /\ trip_plan = NewTripPlan
    /\ pack_error = "none"

\* an exception leaves generate_visa_pack: no plan is returned
PackRaise(error) ==
    /\ gpc' = "raised"
    /\ pack_error' = error
    /\ UNCHANGED <<trip_request, trip_plan>>

\* generate_visa_pack line 462
GenerateVisaPack ==
    /\ front_end = "pack"
    /\ gpc = "idle"
    /\ trip_request' \in TripRequests
    /\ trip_plan' = NewTripPlan
    /\ gpc' = "budget"
    /\ UNCHANGED <<front_end, buildVars, searchVars, utilVars, batchVars, researchVars, pack_error>>

\* line 463, apply_budget_band_to_plan lines 28-39
ApplyBudgetBandToPlan ==
    /\ front_end = "pack"
    /\ gpc = "budget"
    /\ trip_plan' = [trip_plan EXCEPT
          !.budget_per_person_min_inr = BudgetRange(trip_request.budget_band)[1],
          !.budget_per_person_max_inr = BudgetRange(trip_request.budget_band)[2]]
    /\ gpc' = "rules"
    /\ UNCHANGED <<front_end, buildVars, searchVars, utilVars, batchVars, researchVars, trip_request, pack_error>>

\* line 464, apply_rules_agent lines 42-105
ApplyRulesAgent ==
    /\ front_end = "pack"
    /\ gpc = "rules"
    /\ trip_plan' = [trip_plan EXCEPT
          !.rules = apply_rules_agent(trip_request.destination_countries)]
    /\ gpc' = "itinerary"
    /\ UNCHANGED <<front_end, buildVars, searchVars, utilVars, batchVars, researchVars, trip_request, pack_error>>

\* line 465, plan_itinerary_agent lines 217-245: the dates are parsed
\* outside every try block; each segment needs destination_countries[0],
\* in the generator (lines 190, 209) and again in the handler of its
\* failure (line 232)
PlanItineraryAgent ==
    /\ front_end = "pack"
    /\ gpc = "itinerary"
    /\ IF StrptimeRaises(trip_request.start_date)
          \/ StrptimeRaises(trip_request.end_date)
       THEN PackRaise("ValueError")
       ELSE LET dates == make_date_list(trip_request.start_date,
                                        trip_request.end_date)
            IN  IF dates # <<>> /\ trip_request.destination_countries = <<>>
                THEN PackRaise("IndexError")
                ELSE /\ \E plans \in
                            IF dates = <<>> THEN {<<>>}
                            ELSE PackDayPlans(dates,
                                     trip_request.destination_countries) :
                          trip_plan' = [trip_plan EXCEPT
                              !.itinerary = NewDayPlans(FinalPlans(dates, plans))]
                     /\ gpc' = "flights"
                     /\ UNCHANGED <<trip_request, pack_error>>
    /\ UNCHANGED <<front_end, buildVars, searchVars, utilVars, batchVars, researchVars>>

\* line 466, recommend_flights_agent and recommend_flights; the primary
\* destination is taken to have a known airport (line 52)
RecommendFlightsAgent ==
    /\ front_end = "pack"
    /\ gpc = "flights"
    /\ \E got \in FlightOutcomes(trip_request.budget_band) :
              IF got.raised THEN PackRaise("ProviderError")
              ELSE /\ trip_plan' = [trip_plan EXCEPT !.flights = got.options]
                   /\ gpc' = "hotels"
                   /\ UNCHANGED <<trip_request, pack_error>>
    /\ UNCHANGED <<front_end, buildVars, searchVars, utilVars, batchVars, researchVars>>

\* line 467, recommend_hotels_agent lines 252-260 and recommend_hotels
RecommendHotelsAgent ==
    /\ front_end = "pack"
    /\ gpc = "hotels"
    /\ IF trip_plan.itinerary = <<>> /\ trip_request.destination_countries = <<>>
       THEN PackRaise("IndexError")
       ELSE LET cs == IF trip_plan.itinerary # <<>>
                      THEN ItineraryCities(trip_plan.itinerary, <<>>)
                      ELSE <<trip_request.destination_countries[1]>>
            IN  \E got \in HotelOutcomes(cs, trip_request.destination_countries) :
                   IF got.raised THEN PackRaise("ProviderError")
                   ELSE /\ trip_plan' = [trip_plan EXCEPT !.hotels = got.options]
                        /\ gpc' = "insurance"
                        /\ UNCHANGED <<trip_request, pack_error>>
    /\ UNCHANGED <<front_end, buildVars, searchVars, utilVars, batchVars, researchVars>>

\* line 468, recommend_insurance lines 10-35: always two options
RecommendInsuranceAgent ==
    /\ front_end = "pack"
    /\ gpc = "insurance"
    /\ trip_plan' = [trip_plan EXCEPT !.insurance_options = 2]
    /\ gpc' = "enrich"
    /\ UNCHANGED <<front_end, buildVars, searchVars, utilVars, batchVars, researchVars, trip_request, pack_error>>

\* a caller builds a plan and hands it to enrich_itinerary
BuildPlanForEnrichment ==
    /\ front_end = "pack"
    /\ gpc = "idle"
    /\ trip_plan' \in EnrichPlans
    /\ \E theme \in Themes :
          trip_request' = [TripRequest(<<1, 1>>, <<"France">>, "none")
                               EXCEPT !.trip_theme = theme]
    /\ gpc' = "enrich_only"
    /\ UNCHANGED <<front_end, buildVars, searchVars, utilVars, batchVars, researchVars, pack_error>>

\* line 469, enrich_itinerary lines 267-309: each entry gets its stay
\* options, activities and transport
EnrichItinerary ==
    /\ front_end = "pack"
    /\ gpc \in {"enrich", "enrich_only"}
    /\ trip_plan' = [trip_plan EXCEPT
          !.itinerary = enrich_itinerary(trip_plan.itinerary, trip_plan.hotels,
                                         trip_plan.flights,
                                         trip_request.trip_theme)]
    /\ gpc' = IF gpc = "enrich" THEN "validate" ELSE "enriched"
    /\ UNCHANGED <<front_end, buildVars, searchVars, utilVars, batchVars, researchVars, trip_request, pack_error>>

\* line 470, validate_trip_agent lines 312-320
ValidateTripAgent ==
    /\ front_end = "pack"
    /\ gpc = "validate"
    /\ trip_plan' = [trip_plan EXCEPT
          !.validation_issues = ValidationIssues(trip_plan)]
    /\ gpc' = "documents"
    /\ UNCHANGED <<front_end, buildVars, searchVars, utilVars, batchVars, researchVars, trip_request, pack_error>>

\* validate_trip_agent called on a plan of its caller's making, as the
\* tests call the agents one by one
DirectPlans ==
    {TripPlan("None", itin, fl, ho, 0, "None", <<>>, NoMax, NoMax) :
        itin \in {<<>>, <<DayPlan(1, "Paris", FillerSummary, 0)>>},
        fl \in {<<>>, FallbackRecommendations("none")},
        ho \in {<<>>, FallbackHotels(<<"Paris">>)}}

ValidateTripAgentCall ==
    /\ front_end = "pack"
    /\ gpc = "idle"
    /\ \E plan \in DirectPlans :
          trip_plan' = [plan EXCEPT !.validation_issues = ValidationIssues(plan)]
    /\ gpc' = "validated"
    /\ UNCHANGED <<front_end, buildVars, searchVars, utilVars, batchVars, researchVars, trip_request, pack_error>>

\* lines 471-472, generate_documents_agent lines 323-422: llm_call (line
\* 385) is not guarded
GenerateDocumentsAgent ==
    /\ front_end = "pack"
    /\ gpc = "documents"
    /\ \E llm_fails \in BOOLEAN :
          IF llm_fails THEN PackRaise("GenerationError")
          ELSE /\ trip_plan' = [trip_plan EXCEPT !.documents = "VisaPackDocuments"]
               /\ gpc' = "returned"
               /\ UNCHANGED <<trip_request, pack_error>>
    /\ UNCHANGED <<front_end, buildVars, searchVars, utilVars, batchVars, researchVars>>

NextPack ==
    \/ GenerateVisaPack
    \/ ApplyBudgetBandToPlan
    \/ ApplyRulesAgent
    \/ PlanItineraryAgent
    \/ RecommendFlightsAgent
    \/ RecommendHotelsAgent
    \/ RecommendInsuranceAgent
    \/ BuildPlanForEnrichment
    \/ EnrichItinerary
    \/ ValidateTripAgent
    \/ ValidateTripAgentCall
    \/ GenerateDocumentsAgent

(***************************************************************************)
(* utils.truncate_summary                                                  *)
(***************************************************************************)
\* the words of a text, as text.split() gives them: a plain word, a word
\* that ends in a period or in an exclamation mark, and a word whose period
\* is followed by a closing quotation mark, as in: said "go."
WordKinds == {"w", "w.", "w!", "w.q"}

\* re.split(r'(?<=[.!?])\s+', text), line 23: the text is cut at white
\* space that comes directly after one of . ! ?
SplitsAfter(word) == word \in {"w.", "w!"}

\* lines 23-24: the parts of the text, each a list of words
RECURSIVE SentenceParts(_, _, _)
SentenceParts(words, part, parts) ==
    IF words = <<>>
    THEN IF part = <<>> THEN parts ELSE Append(parts, part)
    ELSE IF SplitsAfter(Head(words))
    THEN SentenceParts(Tail(words), <<>>, Append(parts, Append(part, Head(words))))
    ELSE SentenceParts(Tail(words), Append(part, Head(words)), parts)

\* line 27 followed by line 28: " ".join(sentence_parts).split()
RECURSIVE JoinParts(_)
JoinParts(parts) ==
    IF parts = <<>> THEN <<>> ELSE Head(parts) \o JoinParts(Tail(parts))

\* truncate_summary lines 21-31: the words of the result, and whether the
\* marker of line 30 is appended to the last of them
truncate_summary(summary, max_words, max_sentences) ==
    LET sentence_parts == SentenceParts(summary, <<>>, <<>>)
        kept == IF Len(sentence_parts) > max_sentences
                THEN Slice(sentence_parts, 0, max_sentences)
                ELSE sentence_parts
        words == JoinParts(kept)
    IN  IF Len(words) > max_words
        THEN [words |-> Slice(words, 0, max_words), marker |-> TRUE]
        ELSE [words |-> words, marker |-> FALSE]

NoCall == [summary |-> <<>>, max_words |-> 30, max_sentences |-> 2]

InitUtil ==
    /\ truncate_call = NoCall
    /\ truncated = [words |-> <<>>, marker |-> FALSE]
    /\ upc = "idle"

\* a call truncate_summary(summary, max_words, max_sentences)
TruncateSummaryCall ==
    /\ front_end = "summary"
    /\ upc = "idle"
    /\ \E summary \in SeqsUpTo(WordKinds, MaxSummaryWords),
          max_words \in 1..MaxWordCap, max_sentences \in 0..MaxSentenceCap :
          /\ truncate_call' = [summary |-> summary, max_words |-> max_words,
                               max_sentences |-> max_sentences]
          /\ truncated' = truncate_summary(summary, max_words, max_sentences)
    /\ upc' = "returned"
    /\ UNCHANGED <<front_end, buildVars, searchVars, packVars, batchVars, researchVars>>

NextUtil == TruncateSummaryCall

(***************************************************************************)
(* Specifications                                                          *)
(***************************************************************************)
InitItinRun ==
    front_end = "itinerary" /\ InitItin /\ InitCascade /\ InitRank /\ InitStage
    /\ InitPack /\ InitUtil /\ InitSearch /\ InitBuild

InitCascadeRun ==
    front_end = "cascade" /\ InitItin /\ InitCascade /\ InitRank /\ InitStage
    /\ InitPack /\ InitUtil /\ InitSearch /\ InitBuild

\* recommend_flights called again and again in one process, as time passes
InitTokenRun ==
    front_end = "token" /\ InitItin /\ InitCascade /\ InitRank /\ InitStage
    /\ InitPack /\ InitUtil /\ InitSearch /\ InitBuild

\* the batch front end: one call of generate_visa_pack
InitPackRun ==
    front_end = "pack" /\ InitItin /\ InitCascade /\ InitRank /\ InitStage
    /\ InitPack /\ InitUtil /\ InitSearch /\ InitBuild

\* either front end, called once
InitFrontEnds ==
    front_end \in {"pack", "stage"} /\ InitItin /\ InitCascade /\ InitRank
    /\ InitStage /\ InitPack /\ InitUtil /\ InitSearch /\ InitBuild

NextFrontEnds == NextPack \/ NextStage

\* calls of the text helpers
InitUtilRun ==
    front_end = "summary" /\ InitItin /\ InitCascade /\ InitRank /\ InitStage
    /\ InitPack /\ InitUtil /\ InitSearch /\ InitBuild

\* calls of _agentic_results in one process
InitSearchRun ==
    front_end = "search" /\ InitItin /\ InitCascade /\ InitRank /\ InitStage
    /\ InitPack /\ InitUtil /\ InitSearch /\ InitBuild

\* calls of build_initial_state
InitBuildRun ==
    front_end = "initial" /\ InitItin /\ InitCascade /\ InitRank /\ InitStage
    /\ InitPack /\ InitUtil /\ InitSearch /\ InitBuild

InitRankRun ==
    front_end = "rank" /\ InitItin /\ InitCascade /\ InitRank /\ InitStage
    /\ InitPack /\ InitUtil /\ InitSearch /\ InitBuild

InitStageRun ==
    front_end = "stage" /\ InitItin /\ InitCascade /\ InitRank /\ InitStage
    /\ InitPack /\ InitUtil /\ InitSearch /\ InitBuild

\* two calls of run_vpagent, one after the other, in one process
InitThreadsRun ==
    front_end = "threads" /\ InitItin /\ InitCascade /\ InitRank /\ InitStage
    /\ InitPack /\ InitUtil /\ InitSearch /\ InitBuild

\* either pipeline: the batch cascades or the interactive stage machine
InitPipelines ==
    front_end \in {"cascade", "stage"} /\ InitItin /\ InitCascade /\ InitRank
    /\ InitStage /\ InitPack /\ InitUtil /\ InitSearch /\ InitBuild

NextPipelines == NextCascade \/ NextStage

SpecItin == InitItinRun /\ [][NextItin]_vars

SpecCascade == InitCascadeRun /\ [][NextCascade]_vars

SpecToken == InitTokenRun /\ [][NextToken]_vars

SpecPack == InitPackRun /\ [][NextPack]_vars

SpecFrontEnds == InitFrontEnds /\ [][NextFrontEnds]_vars

SpecUtil == InitUtilRun /\ [][NextUtil]_vars

SpecSearch == InitSearchRun /\ [][NextSearch]_vars

SpecBuild == InitBuildRun /\ [][NextBuild]_vars

SpecRank == InitRankRun /\ [][NextRank]_vars

SpecStage == InitStageRun /\ [][NextStage]_vars

SpecPipelines == InitPipelines /\ [][NextPipelines]_vars

SpecThreads == InitThreadsRun /\ [][NextStage]_vars

(***************************************************************************)
(* C1: after plan_itinerary_agent the itinerary has exactly one DayPlan    *)
(* per calendar date of the inclusive range start_date..end_date, in       *)
(* ascending date order, without duplicates or gaps, whatever the segment  *)
(* generator returned or raised.                                           *)
(***************************************************************************)
C1_OneDayPlanPerDate ==
    ipc = "planned" =>
        /\ Len(itinerary) = end_date - start_date + 1
        /\ \A k \in 1..Len(itinerary) : itinerary[k].date = start_date + k - 1

\* a two-segment trip whose generator misreported, duplicated and raised
C1_Witness ==
    /\ ipc = "planned"
    /\ Len(seg_log) = 2
    /\ seg_log[2].raised
    /\ ~seg_log[1].raised
    /\ Len(seg_log[1].plans) = MaxRaw
    /\ \E j, k \in 1..Len(seg_log[1].plans) :
          j # k /\ seg_log[1].plans[j].date = seg_log[1].plans[k].date
    /\ \E k \in 1..Len(itinerary) : itinerary[k].src # 0

\* a source that was unavailable: no credentials, a failing call, or an
\* empty result
Unavailable(src) == outcome[src] \in {"nocreds", "fail", "empty"}

(***************************************************************************)
(* C2: when every flight data source is unavailable (no credentials, a     *)
(* failing call or an empty result), recommend_flights returns exactly two *)
(* synthesized options, one inbound and one outbound, priced from the      *)
(* budget-band table; and recommend_flights never returns an empty list.   *)
(***************************************************************************)
C2_FallbackFlights ==
    (need = "flights" /\ cpc = "returned") =>
        /\ flights # <<>>
        /\ (Unavailable("aviasales") /\ Unavailable("amadeus")) =>
              /\ Len(flights) = 2
              /\ flights[1].label = "Inbound Option"
              /\ flights[2].label = "Outbound Option"
              /\ \A k \in 1..2 :
                    /\ flights[k].airline = "Sample Airline"
                    /\ flights[k].price_in_inr =
                          (CASE budget_band = "low" -> 55000
                             [] budget_band = "High" -> 95000
                             [] OTHER -> 70000)

\* the aggregator's call failed, the flight search came back empty, and the
\* high band priced the two synthesized flights
C2_Witness ==
    /\ need = "flights"
    /\ cpc = "returned"
    /\ outcome["aviasales"] = "fail"
    /\ outcome["amadeus"] = "empty"
    /\ budget_band = "High"
    /\ Len(flights) = 2
    /\ flights[1].price_in_inr = 95000

\* the distinct requested cities: compared without case and outer blanks,
\* blank names left out
RequestedCityKeys == {Lower(Strip(cities[k])) : k \in 1..Len(cities)} \ {""}

(***************************************************************************)
(* C3: when the hotel-inventory API, the web-search hotel engine and the   *)
(* secondary hotel-search API all yield nothing, recommend_hotels returns  *)
(* exactly one synthesized central hotel per distinct requested city, at   *)
(* the fixed nightly rate; with a non-empty destination list               *)
(* recommend_hotels never returns an empty list.                           *)
(***************************************************************************)
C3_FallbackHotels ==
    (need = "hotels" /\ cpc = "returned") =>
        /\ destination_countries # <<>> => hotels # <<>>
        /\ (Unavailable("hotelbeds") /\ Unavailable("serpapi")
            /\ Unavailable("booking")) =>
              /\ \A k \in 1..Len(hotels) :
                    /\ hotels[k].name = "Central Hotel"
                    /\ hotels[k].approx_price_per_night_in_inr = 10000
              /\ RequestedCityKeys # {} =>
                    /\ Len(hotels) = Cardinality(RequestedCityKeys)
                    /\ \A key \in RequestedCityKeys :
                          Cardinality({k \in 1..Len(hotels) :
                                         Lower(hotels[k].city) = key}) = 1
              /\ (RequestedCityKeys = {} /\ destination_countries # <<>>) =>
                    /\ Len(hotels) = 1
                    /\ hotels[1].city = destination_countries[1]

\* two spellings of one city were requested, every source yielded nothing,
\* and one central hotel was synthesized for the city
C3_Witness ==
    /\ need = "hotels"
    /\ cpc = "returned"
    /\ cities = <<"Paris", "paris">>
    /\ outcome["hotelbeds"] = "fail"
    /\ outcome["serpapi"] = "empty"
    /\ outcome["booking"] = "empty"
    /\ Len(hotels) = 1
    /\ hotels[1].name = "Central Hotel"

SourcesOf(n) == IF n = "hotels" THEN HotelSources ELSE FlightSources

\* the place of a source in the priority order of its cascade
Priority(src) ==
    LET order == SourcesOf(need)
    IN  MinOf({k \in 1..Len(order) : order[k] = src})

\* the source an option of the returned list was made by
MadeBy(option) ==
    IF need = "hotels" THEN option.source
    ELSE CASE option.airline = "Aviasales" -> "aviasales"
           [] option.airline = "Amadeus" -> "amadeus"
           [] OTHER -> "synthesized"

Returned == IF need = "hotels" THEN hotels ELSE flights

(***************************************************************************)
(* C4: each cascade consults its sources one at a time in the fixed        *)
(* priority order and returns the list of the first source whose list is   *)
(* non-empty: a later source is consulted only after every earlier source  *)
(* came back empty or failed, and no source is consulted after a non-empty *)
(* list was obtained.                                                      *)
(***************************************************************************)
C4_CascadeOrder ==
    need # "none" =>
        LET order == SourcesOf(need)
        IN  /\ \A i \in 1..Len(consulted) : consulted[i] \in Range(order)
            /\ \A i, j \in 1..Len(consulted) :
                  i < j => Priority(consulted[i]) < Priority(consulted[j])
            /\ \A j \in 1..Len(consulted) : \A k \in 1..Len(order) :
                  k < Priority(consulted[j]) => Unavailable(order[k])
            /\ \A k \in 1..Len(order) :
                  outcome[order[k]] = "ok" =>
                      /\ cpc = "returned"
                      /\ consulted[Len(consulted)] = order[k]
                      /\ \A m \in 1..Len(Returned) : MadeBy(Returned[m]) = order[k]
            /\ cpc = "returned" =>
                  \E k \in 1..Len(order) :
                      /\ \/ outcome[order[k]] = "ok" /\ Returned # <<>>
                         \/ k = Len(order) /\ Returned = <<>>
                      /\ consulted[Len(consulted)] = order[k]
                      /\ \A m \in 1..(k - 1) : Unavailable(order[m])

\* the hotel-inventory API failed, the web-search engine gave hotels, and
\* the run returned them without consulting the later sources
C4_Witness ==
    /\ need = "hotels"
    /\ cpc = "returned"
    /\ consulted = <<"hotelbeds", "serpapi">>
    /\ outcome["hotelbeds"] = "fail"
    /\ outcome["serpapi"] = "ok"
    /\ outcome["booking"] = "none"
    /\ Len(hotels) = 2

(***************************************************************************)
(* C5: a failure of a single external flight or hotel source (network or   *)
(* auth error, or a malformed response payload such as a wrongly typed     *)
(* "data" / "hotels" field or a non-numeric price) is turned into an empty *)
(* result for that source and never propagates out of recommend_flights /  *)
(* recommend_hotels.                                                       *)
(***************************************************************************)
C5_FailuresNeverPropagate ==
    /\ cpc # "raised"
    /\ \A src \in DOMAIN outcome : outcome[src] # "raised"

\* whether candidate a of the built list comes before candidate b in a
\* stable ascending sort
ComesBefore(a, b) ==
    \/ LexLess(built[a].score, built[b].score)
    \/ built[a].score = built[b].score /\ a < b

RankedPositions == {ranked[i].pos : i \in 1..Len(ranked)}

(***************************************************************************)
(* C6 as amended: in every reachable state of the interactive pipeline     *)
(* outbound_flights and return_flights hold at most 3 options and every    *)
(* per-city hotel list at most 2; plan.flights of the batch pipeline holds *)
(* at most 12 options: at most 6 from Aviasales, at most two for each of   *)
(* the first 6 Amadeus offers, and 2 when synthesized.                     *)
(***************************************************************************)
C6_OptionListCaps ==
    /\ Len(outbound_flights) <= 3
    /\ Len(return_flights) <= 3
    /\ \A c \in DOMAIN hotels_by_city : Len(hotels_by_city[c]) <= 2
    /\ Len(flights) <= 12
    /\ (flights # <<>> /\ flights[1].airline = "Aviasales") => Len(flights) <= 6
    /\ (flights # <<>> /\ flights[1].airline = "Sample Airline") => Len(flights) = 2

\* the flight search API answered with six round trips or more, and the
\* batch pipeline's flight list holds twelve options
C6_Witness ==
    /\ front_end = "cascade"
    /\ cpc = "returned"
    /\ outcome["amadeus"] = "ok"
    /\ Len(flights) = 12

\* C6 as first stated: every flight option list of either pipeline holds at
\* most 3 options and every per-city hotel list at most 2
C6_AllListsWithinRankerCaps ==
    /\ Len(flights) <= 3
    /\ Len(outbound_flights) <= 3
    /\ Len(return_flights) <= 3
    /\ \A c \in DOMAIN hotels_by_city : Len(hotels_by_city[c]) <= 2

(***************************************************************************)
(* C7: the ranked list is exactly the first top_k candidates of the        *)
(* candidates sorted ascending by comparison key, candidates of equal key  *)
(* staying in input order; every ranked option is one of the candidates,   *)
(* none is taken twice, and the list never has more than top_k items.      *)
(***************************************************************************)
C7_RankerTopK ==
    rpc \in {"ranked", "returned"} =>
        LET n == Len(built)
            k == TopK(r_kind)
        IN  /\ Len(ranked) = (IF n < k THEN n ELSE k)
            /\ Len(ranked) <= k
            /\ \A i \in 1..Len(ranked) :
                  /\ ranked[i].pos \in 1..n
                  /\ built[ranked[i].pos].option = ranked[i]
            /\ \A i, j \in 1..Len(ranked) :
                  i < j => ComesBefore(ranked[i].pos, ranked[j].pos)
            /\ \A c \in (1..n) \ RankedPositions : \A s \in RankedPositions :
                  ComesBefore(s, c)

\* four flight candidates were ranked to three, two of the three have the
\* same key, and the first candidate of the input was not ranked first
C7_Witness ==
    /\ rpc = "ranked"
    /\ r_kind = "flights"
    /\ Len(built) = 4
    /\ Len(ranked) = 3
    /\ ranked[1].pos # 1
    /\ \E i, j \in 1..3 :
          i < j /\ built[ranked[i].pos].score = built[ranked[j].pos].score

\* a price of 0 is a missing price and counts as the highest
PriceNotHigher(p, q) == q = 0 \/ (p # 0 /\ p <= q)

(***************************************************************************)
(* C8 as amended: in the ranked flight list, for any two options the       *)
(* earlier one has no more stops than the later one; among options with    *)
(* the same stops, two structured-path options are in non-decreasing price *)
(* order, and two free-text options are in non-decreasing duration order   *)
(* (unknown duration counted as 99 hours) and in non-decreasing price      *)
(* order at equal duration; a missing price counts as the highest.         *)
(***************************************************************************)
C8_StopsThenPathKey ==
    (rpc \in {"ranked", "returned"} /\ r_kind = "flights") =>
        \A i, j \in 1..Len(ranked) :
            i < j =>
                /\ ranked[i].stops <= ranked[j].stops
                /\ (/\ ranked[i].stops = ranked[j].stops
                    /\ ranked[i].path = "structured"
                    /\ ranked[j].path = "structured")
                   => PriceNotHigher(ranked[i].price_eur, ranked[j].price_eur)
                /\ (/\ ranked[i].stops = ranked[j].stops
                    /\ ranked[i].path = "text"
                    /\ ranked[j].path = "text")
                   => \/ ranked[i].dur < ranked[j].dur
                      \/ /\ ranked[i].dur = ranked[j].dur
                         /\ PriceNotHigher(ranked[i].price_eur, ranked[j].price_eur)

\* two free-text options with the same stops were ranked, the shorter
\* flight first although it costs more
C8_Witness ==
    /\ rpc = "ranked"
    /\ r_kind = "flights"
    /\ \E i, j \in 1..Len(ranked) :
          /\ i < j
          /\ ranked[i].path = "text" /\ ranked[j].path = "text"
          /\ ranked[i].stops = ranked[j].stops
          /\ ranked[i].dur < ranked[j].dur
          /\ ranked[i].price_eur > ranked[j].price_eur

\* C8 as first stated: of any two options of the ranked flight list the
\* earlier one has fewer stops, or the same stops and a price not higher
C8_StopsThenPrice ==
    (rpc \in {"ranked", "returned"} /\ r_kind = "flights") =>
        \A i, j \in 1..Len(ranked) :
            i < j =>
                \/ ranked[i].stops < ranked[j].stops
                \/ /\ ranked[i].stops = ranked[j].stops
                   /\ ranked[i].price_eur <= ranked[j].price_eur

(***************************************************************************)
(* C9: the stages run strictly in the order flight_research,               *)
(* hotel_research, insurance_research, document_generation, preview,       *)
(* final_output, each at most once and none skipped; after each stage the  *)
(* marker names the next stage; the marker "complete" and is_complete are  *)
(* reached only after final_output, where the graph ends.                  *)
(***************************************************************************)
C9_LinearStages ==
    LET k == Len(executed)
    IN  /\ k <= Len(StageOrder)
        /\ \A i \in 1..k : executed[i] = StageOrder[i]
        /\ k = 0 => current_step \in {"none", "start"}
        /\ (0 < k /\ k < Len(StageOrder)) => current_step = StageOrder[k + 1]
        /\ k = Len(StageOrder) <=> current_step = "complete"
        /\ is_complete <=> current_step = "complete"
        /\ spc = "END" <=> is_complete
        /\ (spc \notin {"idle", "END", "aborted", "rejected"})
              => spc = StageOrder[k + 1]

\* a run went through all six stages and ended
C9_Witness ==
    /\ spc = "END"
    /\ executed = StageOrder
    /\ current_step = "complete"
    /\ is_complete

(***************************************************************************)
(* C10: each stage appends exactly one message to the message log: after k *)
(* stages of a run that began with an empty log, the log holds exactly the *)
(* k messages of those stages, in order.                                   *)
(***************************************************************************)
C10_OneMessagePerStage ==
    /\ Len(messages) = Len(executed)
    /\ \A k \in 1..Len(messages) :
          messages[k] = (CASE executed[k] = "flight_research" -> "flights"
                           [] executed[k] = "hotel_research" -> "hotels"
                           [] executed[k] = "insurance_research" -> "insurance"
                           [] executed[k] = "document_generation" -> "documents"
                           [] executed[k] = "preview" -> "preview"
                           [] OTHER -> "approved")

ResearchStages == {"flight_research", "hotel_research", "insurance_research"}

(***************************************************************************)
(* C11: a failure of a search provider inside a research stage is absorbed *)
(* inside the stage: no run is ended by an error while its next stage is   *)
(* flight_research, hotel_research or insurance_research.                  *)
(***************************************************************************)
C11_SearchFailureAbsorbed ==
    spc = "aborted" => StageOrder[Len(executed) + 1] \notin ResearchStages

(* C12: invocations share no state: whatever the thread identifiers of two
   calls of run_vpagent, the state of one call holds no message that the
   other call produced. *)
C12_NoSharedState ==
    \A k \in 1..Len(msg_run) : msg_run[k] = invocation

(* C13: across any sequence of get_amadeus_token calls and flight-search
   outcomes, a cached non-empty token is returned without a new token
   request while the clock is before its expiry; a call made with
   credentials when the cache is empty or expired posts a new token
   request; and no step at all (a failed token request, a failed or
   successful flight search, the passing of time) alters a cached token
   that is still within its validity. *)
C13_TokenCache ==
    [][ LET valid == cache_token # "" /\ now < cache_expires
            calls == cpc = "token" /\ cpc' = "amadeus"
            creds == settings["amadeus_api_key"] /\ settings["amadeus_api_secret"]
        IN  /\ calls /\ valid => token' = cache_token /\ ~requested'
            /\ calls /\ ~valid /\ creds => requested'
            /\ valid => cache_token' = cache_token /\ cache_expires' = cache_expires
      ]_vars

\* a later call, after time has passed, is answered from the cache while a
\* flight search with that token has failed
C13_Witness ==
    /\ front_end = "token"
    /\ cpc = "returned"
    /\ outcome["amadeus"] = "fail"
    /\ ~requested
    /\ token = "tokB"
    /\ cache_token = "tokB"
    /\ now > 0 /\ now < cache_expires

\* the lists that validation looks at, and the issue that reports each
ValidatedLists == {"itinerary", "flights", "hotels"}

IssueFor(list) ==
    CASE list = "itinerary" -> "No itinerary generated."
      [] list = "flights" -> "No flight options generated."
      [] list = "hotels" -> "No hotel options generated."

(* C14: validation adds exactly one advisory issue for each of itinerary,
   flights and hotels that is empty and none otherwise, and issues never
   block document assembly: after validation the pipeline goes on to
   assemble the documents, a returned plan has its documents set whether or
   not it has issues, and once there are issues the only exception that
   can still leave the pipeline is a failure of document generation. *)
C14_AdvisoryIssues ==
    LET issues == trip_plan.validation_issues
        empties == {l \in ValidatedLists : trip_plan[l] = <<>>}
        validated == \/ gpc \in {"validated", "documents", "returned"}
                     \/ gpc = "raised" /\ pack_error = "GenerationError"
    IN  /\ validated =>
              /\ Len(issues) = Cardinality(empties)
              /\ \A l \in ValidatedLists :
                    IssueFor(l) \in Range(issues) <=> l \in empties
        /\ ~validated => issues = <<>>
        /\ gpc = "returned" => trip_plan.documents # "None"
        /\ gpc = "raised" /\ issues # <<>> => pack_error = "GenerationError"

\* a plan returned with its documents and with an issue
C14_Witness ==
    /\ gpc = "returned"
    /\ trip_plan.validation_issues = <<"No itinerary generated.">>
    /\ trip_plan.documents = "VisaPackDocuments"

\* a request whose dates are dates, in order, and that names a destination
ValidRequest(req) ==
    /\ ~StrptimeRaises(req.start_date)
    /\ ~StrptimeRaises(req.end_date)
    /\ req.start_date <= req.end_date
    /\ req.destination_countries # <<>>

(* C15: for a valid request with a non-empty date range, whatever the
   providers answer, and provided text generation succeeds,
   generate_visa_pack returns a plan with one itinerary entry per requested
   day, at least one flight option, at least one hotel option, its
   documents set and no validation issue. *)
C15_ValidRequestFullPlan ==
    ValidRequest(trip_request) /\ gpc \in {"returned", "raised"}
    /\ pack_error # "GenerationError"
    => /\ gpc = "returned"
       /\ Len(trip_plan.itinerary)
             = trip_request.end_date - trip_request.start_date + 1
       /\ trip_plan.flights # <<>>
       /\ trip_plan.hotels # <<>>
       /\ trip_plan.documents # "None"
       /\ trip_plan.validation_issues = <<>>

\* a batch request with a start or end that is no date, or no destination
MalformedRequest(req) ==
    \/ req.start_date = NotADate
    \/ req.end_date = NotADate
    \/ req.destination_countries = <<>>

\* an interactive payload with a start that is no date, or no destination
MalformedPayload(p) ==
    p.trip_start_date = NotADate \/ p.destinations = <<>>

(* C16: malformed top-level input is a hard error in both front ends: a
   request or payload whose start or end date is no calendar date, or whose
   destination list is empty, never yields a returned plan or state.
   generate_visa_pack raises before it gets past the hotel agent, and
   run_vpagent raises before any stage runs. *)
C16_MalformedInputRaises ==
    /\ (front_end = "pack" /\ gpc \notin {"idle", "validated"}
        /\ MalformedRequest(trip_request))
       => gpc \in {"budget", "rules", "itinerary", "flights", "hotels", "raised"}
    /\ (front_end = "stage" /\ spc # "idle" /\ MalformedPayload(payload))
       => spc = "rejected" /\ executed = <<>>

\* a request without destinations and with an empty date range gets as far
\* as the hotel agent, which raises
C16_Witness ==
    /\ front_end = "pack"
    /\ gpc = "raised"
    /\ pack_error = "IndexError"
    /\ trip_request.destination_countries = <<>>
    /\ trip_plan.flights # <<>>

\* the budget band has been applied to the plan of the call
BandApplied ==
    /\ front_end = "pack"
    /\ gpc \notin {"idle", "budget", "validated", "enrich_only", "enriched"}

(* C17: apply_budget_band_to_plan maps the band, whatever its letter case,
   to the range (min, max) per person in INR: low to (100000, 150000),
   medium to (150000, 300000), high to (300000, no maximum), and a band
   that is unrecognized, empty or missing to the medium range. *)
C17_BudgetBandRange ==
    BandApplied =>
        LET band == trip_request.budget_band
            range == <<trip_plan.budget_per_person_min_inr,
                       trip_plan.budget_per_person_max_inr>>
        IN  /\ band = "low" => range = <<100000, 150000>>
            /\ band = "medium" => range = <<150000, 300000>>
            /\ band = "High" => range = <<300000, NoMax>>
            /\ band \in {"premium", "none"} => range = <<150000, 300000>>

\* the band "High" gave the open-ended range
C17_Witness ==
    /\ BandApplied
    /\ trip_request.budget_band = "High"
    /\ trip_plan.budget_per_person_min_inr = 300000
    /\ trip_plan.budget_per_person_max_inr = NoMax

\* generate_visa_pack has derived the rules for the request of the call
RulesApplied ==
    /\ front_end = "pack"
    /\ gpc \notin {"idle", "budget", "rules", "validated", "enrich_only",
                   "enriched"}

\* "Schengen" in rules.visa_type
ContainsSchengen(visa_type) == visa_type = "Schengen Short-Stay (Type C)"

\* the destination names of the model that name a Schengen country
SchengenNames == {"France", "ITALY"}

(* C18: apply_rules_agent returns a visa type containing "Schengen" exactly
   when at least one destination country is, letter case aside, in the
   Schengen list; further destinations outside the list, and the order of
   the destinations, do not change the result. *)
C18_SchengenIffListed ==
    RulesApplied =>
        LET dests == trip_request.destination_countries
        IN  ContainsSchengen(trip_plan.rules)
            <=> \E k \in 1..Len(dests) : dests[k] \in SchengenNames

\* a Schengen country in upper case after a country outside the list
C18_Witness ==
    /\ RulesApplied
    /\ trip_request.destination_countries = <<"India", "ITALY">>
    /\ ContainsSchengen(trip_plan.rules)

\* the words of a text whose period ends a sentence
SentenceEndingPeriods(words) ==
    Cardinality({k \in 1..Len(words) : words[k] \in {"w.", "w.q"}})

\* the sentences of a text: one per word that ends a sentence, and the
\* unfinished one at the end, if any
Sentences(words) ==
    Cardinality({k \in 1..Len(words) : words[k] \in {"w.", "w!", "w.q"}})
    + (IF words # <<>> /\ words[Len(words)] = "w" THEN 1 ELSE 0)

(* C19: for every text and every max_words and max_sentences,
   truncate_summary returns a text of at most max_sentences sentences and at
   most max_words words, with the ellipsis marker appended exactly when
   words were cut off; in particular the result holds at most max_sentences
   sentence-ending periods. *)
C19_TruncateSummaryCaps ==
    upc = "returned" =>
        /\ Len(truncated.words) <= truncate_call.max_words
        /\ Sentences(truncated.words) <= truncate_call.max_sentences
        /\ SentenceEndingPeriods(truncated.words) <= truncate_call.max_sentences
        /\ truncated.marker =>
              /\ Len(truncated.words) = truncate_call.max_words
              /\ Len(truncate_call.summary) > truncate_call.max_words
        /\ ~truncated.marker =>
              \/ truncated.words = truncate_call.summary
              \/ truncated.words = <<>>
              \/ truncated.words[Len(truncated.words)] # "w"

(* C20: the hotel research output for a city never contains an option made
   from free text whose extracted rating is below 3, since every such
   candidate is discarded before ranking; candidates of the structured path
   are kept whatever their rating. *)
C20_TextRatingFloor ==
    r_kind = "hotels" /\ rpc = "returned" =>
        /\ \A i \in 1..Len(returned) :
              returned[i].path # "structured" => returned[i].star_rating >= 3
        /\ \A k \in 1..Len(results) : \A j \in 1..Len(results[k].rows) :
              LET row == results[k].rows[j]
              IN  \E i \in 1..Len(built) :
                     built[i].option =
                        HotelOptionEur("structured",
                                       IF row.rating = NoRating THEN 4
                                       ELSE RoundHalfEven(row.rating),
                                       row.price, i)

(* C21: when scoring yields no candidate, the list handed back holds one
   option for each of the first top_k raw results, in result order, with the
   price of the free-text price heuristic and with the stop count (flights:
   1) or the rating (hotels: 4) set to its default, not taken from the
   text. *)
C21_RawFallbackDefaults ==
    rpc = "returned" /\ ranked = <<>> =>
        /\ Len(returned) = MinOf({TopK(r_kind), Len(results)})
        /\ \A k \in 1..Len(returned) :
              /\ returned[k].path = "raw"
              /\ returned[k].price_eur = results[k].text.price
              /\ r_kind = "flights" => returned[k].stops = 1
              /\ r_kind = "hotels" => returned[k].star_rating = 4

\* the entries of all_day_plans that segment k of seg_log contributed
SegmentPlans(k) ==
    SubSeq(all_day_plans, (k - 1) * MAX_DAYS_PER_CALL + 1,
           (k - 1) * MAX_DAYS_PER_CALL + Len(seg_log[k].dates))

\* the generated entries of segment k stored under date d, by position
EntriesOn(k, d) ==
    {i \in 1..Len(seg_log[k].plans) : seg_log[k].plans[i].date = d}

(* C22: within one segment whose generation returned, when two or more
   generated entries are stored under the same date (after remapping), the
   reconciled segment holds the first of them in generation order for that
   date. *)
C22_SegmentKeepsFirst ==
    \A k \in 1..Len(seg_log) :
        ~seg_log[k].raised =>
            \A j \in 1..Len(seg_log[k].dates) :
                Cardinality(EntriesOn(k, seg_log[k].dates[j])) >= 2 =>
                    SegmentPlans(k)[j] =
                        seg_log[k].plans[MinOf(EntriesOn(k, seg_log[k].dates[j]))]

\* the segment dates no entry before entry i of the current segment holds
FreeBefore(i) ==
    {k \in 1..Len(segment_dates) :
        \A j \in 1..(i - 1) : day_plans[j].date # segment_dates[k]}

\* entry i of the current segment reported a date outside the segment
Misreported(i) == raw_days[i] \notin Range(segment_dates)

(* C23 as stated: an entry whose date is no segment date is remapped to the
   first segment date not yet claimed, so that it never takes a date that
   another generated entry of the segment validly reports; an entry whose
   date is a segment date stays on it. *)
C23_RemapAvoidsValidDates ==
    ipc = "segment" =>
        \A i \in 1..Len(day_plans) :
            /\ ~Misreported(i) => day_plans[i].date = raw_days[i]
            /\ Misreported(i) /\ FreeBefore(i) # {} =>
                  day_plans[i].date = segment_dates[MinOf(FreeBefore(i))]
            /\ Misreported(i) =>
                  \A j \in 1..Len(day_plans) :
                      j # i /\ ~Misreported(j) => raw_days[j] # day_plans[i].date

(* C23, amended: an entry whose date is no segment date is remapped to the
   first segment date that no EARLIER entry of the segment holds, so it
   takes no date an earlier entry holds (a later entry that validly reports
   that date still lands on it); when every segment date is held already
   the entry keeps the date it reported, or the first segment date if it
   reported none; an entry whose date is a segment date stays on it. *)
C23_RemapAvoidsEarlierDates ==
    ipc = "segment" =>
        \A i \in 1..Len(day_plans) :
            /\ ~Misreported(i) => day_plans[i].date = raw_days[i]
            /\ Misreported(i) /\ FreeBefore(i) # {} =>
                  /\ day_plans[i].date = segment_dates[MinOf(FreeBefore(i))]
                  /\ \A j \in 1..(i - 1) : day_plans[j].date # day_plans[i].date
            /\ Misreported(i) /\ FreeBefore(i) = {} =>
                  day_plans[i].date = IF raw_days[i] = NoDate
                                      THEN segment_dates[1] ELSE raw_days[i]

\* a misreported entry was moved past a date an earlier entry holds, and a
\* later entry validly reports the date it was moved to
C23_Witness ==
    /\ ipc = "segment"
    /\ Len(segment_dates) >= 2
    /\ \E i, j \in 1..Len(day_plans) :
          /\ i < j
          /\ Misreported(i)
          /\ day_plans[i].date = segment_dates[2]
          /\ raw_days[j] = segment_dates[2]
          /\ day_plans[j].date = segment_dates[2]

\* the dates of the segments generated so far, one after the other
RECURSIVE LoggedDates(_)
LoggedDates(k) ==
    IF k = 0 THEN <<>> ELSE LoggedDates(k - 1) \o seg_log[k].dates

(* C24: the requested dates are split into consecutive segments of at most
   8 dates, each generated by one call; in the planned itinerary every date
   of a segment whose generation raised holds the filler entry, and every
   date of any other segment holds the entry generated for it in that
   segment (the filler only where the segment generated none for the
   date), whatever happened to the other segments. *)
C24_SegmentFallbackIsLocal ==
    ipc = "planned" =>
        /\ LoggedDates(Len(seg_log)) = all_dates
        /\ \A k \in 1..Len(seg_log) :
              /\ Len(seg_log[k].dates) \in 1..MAX_DAYS_PER_CALL
              /\ k < Len(seg_log) => Len(seg_log[k].dates) = MAX_DAYS_PER_CALL
              /\ \A j \in 1..Len(seg_log[k].dates) :
                    LET d == seg_log[k].dates[j]
                        entry == itinerary[(k - 1) * MAX_DAYS_PER_CALL + j]
                    IN  IF seg_log[k].raised \/ EntriesOn(k, d) = {}
                        THEN entry = [date |-> d, city |-> FirstDestination,
                                      summary |-> FillerSummary, src |-> 0]
                        ELSE \E i \in EntriesOn(k, d) :
                                entry = seg_log[k].plans[i]

\* a trip of two segments: the first raised after entries had been built,
\* the second returned a generated entry that is in the itinerary
C24_Witness ==
    /\ ipc = "planned"
    /\ Len(seg_log) = 2
    /\ seg_log[1].raised
    /\ seg_log[1].plans # <<>>
    /\ ~seg_log[2].raised
    /\ itinerary[MAX_DAYS_PER_CALL + 1].src # 0

\* the agentic search of the last call ended in an error
ExaEndedInError ==
    exa_reply.kind \in {"http_error", "not_json", "not_object", "bad_item"}

\* the agentic search of the last call returned no results
ExaReturnedNothing ==
    \/ exa_reply.kind = "results_not_list"
    \/ exa_reply.kind = "results" /\ exa_reply.found = <<>>

(* C25: the agentic search is attempted first whenever its credentials are
   present; the keyword search is invoked if and only if the credentials are
   missing, or the agentic search returned no results, or it ended in an
   error of any kind; after a non-empty agentic result the keyword search is
   not invoked; results of the keyword search carry no structured rows, so
   they are parsed by the free-text path only. *)
C25_SearchMethodCascade ==
    qpc \in {"returned", "raised"} =>
        /\ exa_api_key \notin {"unset", ""} => invoked # <<>> /\ invoked[1] = "exa"
        /\ exa_api_key \in {"unset", ""} => invoked = <<"tavily">>
        /\ "tavily" \in Range(invoked) <=>
              \/ exa_api_key \in {"unset", ""}
              \/ ExaReturnedNothing
              \/ ExaEndedInError
        /\ exa_reply.kind = "results" /\ exa_reply.found # <<>> =>
              invoked = <<"exa">>
        /\ qpc = "returned" /\ "tavily" \in Range(invoked) =>
              /\ \A k \in 1..Len(search_results) : search_results[k].rows = <<>>
              /\ \A k \in 1..Len(BuildFlights(search_results)) :
                    BuildFlights(search_results)[k].path # "structured"
              /\ \A k \in 1..Len(BuildHotels(search_results)) :
                    BuildHotels(search_results)[k].path # "structured"

\* enrich_itinerary has run on the plan
Enriched == gpc \in {"enriched", "validate", "documents", "returned"}

\* the positions of the plan's hotels in the city
HotelsIn(city) ==
    {i \in 1..Len(trip_plan.hotels) : trip_plan.hotels[i].city = city}

\* the hotels a day's stay options are made from: the first two of the
\* positions `at`
FirstTwo(at) ==
    IF at = {} THEN <<>>
    ELSE IF Cardinality(at) = 1 THEN <<trip_plan.hotels[MinOf(at)]>>
    ELSE <<trip_plan.hotels[MinOf(at)],
           trip_plan.hotels[MinOf(at \ {MinOf(at)})]>>

(* C26: after enrichment every DayPlan has at most 2 stay options: those of
   the first two hotels of the plan whose city is the day's city or, if no
   hotel is in that city, of the first two of the first 3 plan-wide hotels;
   a day has no stay option only when the plan has no hotel. *)
C26_StayOptions ==
    Enriched =>
        \A k \in 1..Len(trip_plan.itinerary) :
            LET day == trip_plan.itinerary[k]
                from == IF HotelsIn(day.city) # {} THEN FirstTwo(HotelsIn(day.city))
                        ELSE FirstTwo(1..MinOf({3, Len(trip_plan.hotels)}))
            IN  /\ Len(day.stay_options) <= 2
                /\ day.stay_options =
                      [i \in 1..Len(from) |-> format_hotel_option(from[i])]
                /\ day.stay_options = <<>> => trip_plan.hotels = <<>>

\* a plan of three hotels none of which is in the first day's city, while
\* the second day's city has one
C26_Witness ==
    /\ gpc = "enriched"
    /\ Len(trip_plan.itinerary) >= 2
    /\ Len(trip_plan.hotels) = 3
    /\ HotelsIn(trip_plan.itinerary[1].city) = {}
    /\ Len(trip_plan.itinerary[1].stay_options) = 2
    /\ Cardinality(HotelsIn(trip_plan.itinerary[2].city)) = 1
    /\ Len(trip_plan.itinerary[2].stay_options) = 1

(* C27: after enrichment with a non-empty flight list, the first day's
   first activity is the arrival note of the inbound flight (the first of
   the list) and its transport the arrival label; the last day's last
   activity is the departure note of the outbound flight (the last of the
   list) and its transport is overwritten by the departure label, so a
   one-day itinerary carries both notes and the departure label; every
   interior day's transport is the local-transit note if its city is the
   previous day's city and the travel note from that city to its own
   otherwise. *)
C27_FlightNotesAndTransport ==
    Enriched /\ trip_plan.flights # <<>> /\ trip_plan.itinerary # <<>> =>
        LET itin == trip_plan.itinerary
            n == Len(itin)
            inbound == trip_plan.flights[1]
            outbound == trip_plan.flights[Len(trip_plan.flights)]
        IN  /\ itin[1].activities[1] =
                  [kind |-> "arrival", a |-> inbound.airline, b |-> inbound.label]
            /\ n > 1 => itin[1].transport =
                  [kind |-> "arrival", a |-> inbound.label, b |-> ""]
            /\ itin[n].activities[Len(itin[n].activities)] =
                  [kind |-> "departure", a |-> outbound.airline, b |-> outbound.label]
            /\ itin[n].transport =
                  [kind |-> "departure", a |-> outbound.label, b |-> ""]
            /\ n = 1 => Len(itin[1].activities) >= 2
            /\ \A k \in 2..(n - 1) :
                  itin[k].transport =
                      IF itin[k].city = itin[k - 1].city
                      THEN [kind |-> "local", a |-> "", b |-> ""]
                      ELSE [kind |-> "travel", a |-> itin[k - 1].city,
                            b |-> itin[k].city]

\* a three-day itinerary with two flights whose interior day changes city
\* and whose last day stays in it
C27_Witness ==
    /\ gpc = "enriched"
    /\ Len(trip_plan.flights) = 2
    /\ Len(trip_plan.itinerary) = 3
    /\ trip_plan.itinerary[2].city # trip_plan.itinerary[1].city
    /\ trip_plan.itinerary[3].city = trip_plan.itinerary[2].city
    /\ trip_plan.itinerary[2].transport.kind = "travel"
    /\ trip_plan.itinerary[3].transport.kind = "departure"

\* two lists of DayPlans with the same entries in the same order as far as
\* date, city and summary go
SameDays(before, after) ==
    /\ Len(after) = Len(before)
    /\ \A k \in 1..Len(before) :
          /\ after[k].date = before[k].date
          /\ after[k].city = before[k].city
          /\ after[k].summary = before[k].summary

(* C29: once the itinerary is planned, only enrichment changes a DayPlan,
   and it leaves the number, order, date, city and summary of the DayPlans
   as they were; flight, hotel and insurance recommendation, validation and
   document assembly leave every DayPlan unchanged, and no step after
   apply_budget_band_to_plan changes the budget range. *)
C29_OnlyEnrichmentChangesDayPlans ==
    [][/\ gpc \in {"flights", "hotels", "insurance", "validate", "documents"} =>
              trip_plan'.itinerary = trip_plan.itinerary
       /\ gpc \in {"enrich", "enrich_only"} =>
              SameDays(trip_plan.itinerary, trip_plan'.itinerary)
       /\ gpc \in {"rules", "itinerary", "flights", "hotels", "insurance",
                   "enrich", "validate", "documents"} =>
              /\ trip_plan'.budget_per_person_min_inr =
                    trip_plan.budget_per_person_min_inr
              /\ trip_plan'.budget_per_person_max_inr =
                    trip_plan.budget_per_person_max_inr]_vars

\* a returned plan whose days were enriched and whose budget range is set
C29_Witness ==
    /\ gpc = "returned"
    /\ Len(trip_plan.itinerary) >= 2
    /\ \A k \in 1..Len(trip_plan.itinerary) :
          /\ trip_plan.itinerary[k].stay_options # <<>>
          /\ trip_plan.itinerary[k].activities # <<>>
          /\ trip_plan.itinerary[k].transport # NoTransport
    /\ trip_plan.budget_per_person_min_inr # NoMax

(* C28: every hotel option hotel research hands back, whether made by the
   structured path, the free-text path or the raw fallback, has a star
   rating in 1..5, and the rating is 4 whenever the row or text it was made
   from holds no rating pattern. *)
C28_StarRatingRange ==
    r_kind = "hotels" /\ rpc = "returned" =>
        /\ \A i \in 1..Len(returned) : returned[i].star_rating \in 1..5
        /\ \A k \in 1..Len(results) :
              results[k].rows = <<>> /\ results[k].text.rating = NoRating =>
                  \E i \in 1..Len(built) :
                      /\ built[i].option.path = "text"
                      /\ built[i].option.star_rating = 4
        /\ \A k \in 1..Len(results) : \A j \in 1..Len(results[k].rows) :
              results[k].rows[j].rating = NoRating =>
                  \E i \in 1..Len(built) :
                      /\ built[i].option.path = "structured"
                      /\ built[i].option.price_eur = results[k].rows[j].price
                      /\ built[i].option.star_rating = 4

\* the sum of the nights of the first k destinations of the payload
RECURSIVE NightsUpTo(_)
NightsUpTo(k) ==
    IF k = 0 THEN 0 ELSE NightsUpTo(k - 1) + state_payload.destinations[k].nights

\* the day a date string of the state names
DayOf(date_str) ==
    IF date_str > UnpaddedForm THEN date_str - UnpaddedForm ELSE date_str

(* C30: for a payload with a non-empty destination list build_initial_state
   gives contiguous stays: the first check-in is the trip start date, each
   check-out is its check-in plus its nights and is the next check-in,
   total_nights is the sum of the nights, trip_end_date is the last
   check-out (the start date plus total_nights), and, when no primary
   country is given, the primary destination is the stay of most nights,
   the first such stay winning ties. *)
C30_ContiguousStays ==
    bpc = "built" =>
        LET given == state_payload.destinations
            stays == initial_state.destinations
            n == Len(given)
            start == DayOf(state_payload.trip_start_date)
            longest == {k \in 1..n : \A j \in 1..n : given[j].nights <= given[k].nights}
        IN  /\ n > 0
            /\ Len(stays) = n
            /\ initial_state.trip_start_date = state_payload.trip_start_date
            /\ DayOf(stays[1].check_in) = start
            /\ \A k \in 1..n :
                  /\ stays[k].country = given[k].country
                  /\ stays[k].city = given[k].city
                  /\ stays[k].nights = given[k].nights
                  /\ stays[k].check_out = stays[k].check_in + given[k].nights
                  /\ k < n => stays[k].check_out = stays[k + 1].check_in
            /\ initial_state.total_nights = NightsUpTo(n)
            /\ initial_state.trip_end_date = stays[n].check_out
            /\ initial_state.trip_end_date = start + NightsUpTo(n)
            /\ state_payload.primary_destination_country = "None" =>
                  /\ initial_state.primary_destination = given[MinOf(longest)].country
                  /\ initial_state.primary_destination_city = given[MinOf(longest)].city

\* three stays, the second and the third tied for the most nights and in
\* different countries, no primary country given, the start date written
\* without zero padding
C30_Witness ==
    /\ bpc = "built"
    /\ Len(initial_state.destinations) = 3
    /\ initial_state.destinations[1].nights = 1
    /\ initial_state.destinations[2].nights = 3
    /\ initial_state.destinations[3].nights = 3
    /\ initial_state.destinations[2].country # initial_state.destinations[3].country
    /\ state_payload.primary_destination_country = "None"
    /\ initial_state.primary_destination = initial_state.destinations[2].country
    /\ state_payload.trip_start_date > UnpaddedForm
    /\ initial_state.total_nights = 7

====
